---- MODULE Spec2Model ----
(***************************************************************************)
(* Weighted graph embedder (rembed): graph construction, the spatial query *)
(* layer (brute-force Embedding, ATree, DynamicQuery wrapper) and the      *)
(* iteration engine (WEmbedder).                                           *)
(*                                                                         *)
(* Numbers.  f32/f64 values are modelled as exact rationals.  A coordinate *)
(* is an integer count of 1/Unit; a squared distance is an integer count   *)
(* of 1/Unit^2.  Rounding of floating point arithmetic is not modelled.    *)
(* Graphs are built with embedding_dim = latent_dim_hint = D = 2, so that  *)
(* weight(v)^2 = degree(v) * N / total_weight is rational; a weight is     *)
(* carried as the pair <<num, den>> of its square.                         *)
(***************************************************************************)
EXTENDS Integers, Sequences, FiniteSets, TLC

\* ------------------------------------------------------------------------
\* Numbers and small helpers
\* ------------------------------------------------------------------------

\* embedding dimension and latent dimension hint (embedder.rs test set-up)
D == 2
H == 2

\* fixed-point resolution of coordinates: 1.0 is Unit
Unit == 20

\* largest node id and longest edge list drawn for graph construction
MaxNodeId == 2
MaxEdges == 2

Max(a, b) == IF a >= b THEN a ELSE b
Min(a, b) == IF a <= b THEN a ELSE b

RECURSIVE Gcd(_, _)
Gcd(a, b) == IF b = 0 THEN a ELSE Gcd(b, a % b)

\* a rational <<num, den>> in lowest terms (num >= 0, den > 0)
Reduced(r) == LET g == Gcd(r[1], r[2]) IN <<r[1] \div g, r[2] \div g>>

\* 0-based read of a Vec held as a sequence
At(s, i) == s[i + 1]

Range(s) == {s[i] : i \in DOMAIN s}

\* Body applied to value, value being computed once
LetIn(value, Body(_)) == CHOOSE r \in {Body(x) : x \in {value}} : TRUE

\* the node ids 0 .. n-1
Ids(n) == 0 .. (n - 1)

\* ------------------------------------------------------------------------
\* graph.rs
\* ------------------------------------------------------------------------

\* Graph::new
Graph_new == [nodes |-> << >>, edges |-> << >>]

\* node_degree after the first loop of from_edge_list: its length
node_degree_len(edges) ==
    IF edges = << >> THEN 0
    ELSE 1 + CHOOSE m \in {Max(edges[k][1], edges[k][2]) : k \in DOMAIN edges} :
                 \A k \in DOMAIN edges : m >= Max(edges[k][1], edges[k][2])

\* node_degree[i]: one increment per endpoint occurrence
node_degree(edges, i) ==
    Cardinality({k \in DOMAIN edges : edges[k][1] = i})
  + Cardinality({k \in DOMAIN edges : edges[k][2] = i})

RECURSIVE SumDegrees(_, _)
SumDegrees(edges, n) ==
    IF n = 0 THEN 0 ELSE node_degree(edges, n - 1) + SumDegrees(edges, n - 1)

\* nodes[i].neighbors after the second loop over the first k edges
RECURSIVE push_neighbors(_, _, _)
push_neighbors(edges, i, k) ==
    IF k = 0 THEN << >>
    ELSE LET prev == push_neighbors(edges, i, k - 1)
             u == edges[k][1]
             v == edges[k][2]
             a == IF u = i THEN Append(prev, v) ELSE prev
         IN  IF v = i THEN Append(a, u) ELSE a

\* Graph::from_edge_list(edges, D, H); the result is always Ok(graph)
from_edge_list(edges) ==
    LET n == node_degree_len(edges)
        total_weight == SumDegrees(edges, n)
    IN  [nodes |-> [j \in 1 .. n |->
                      [weight |-> <<node_degree(edges, j - 1) * n, total_weight>>,
                       neighbors |-> push_neighbors(edges, j - 1, Len(edges)),
                       neighbors_set |-> Range(push_neighbors(edges, j - 1, Len(edges)))]],
         edges |-> edges]

\* the io::Result from_edge_list hands back: Ok(graph) is its only return
from_edge_list_result(edges) == [ok |-> TRUE, graph |-> from_edge_list(edges)]

\* impl query::Graph for Graph
is_connected(g, first, second) == second \in At(g.nodes, first).neighbors_set
neighbors(g, index) == At(g.nodes, index).neighbors
weight(g, index) == At(g.nodes, index).weight

NumGraphNodes(g) == Len(g.nodes)

\* ------------------------------------------------------------------------
\* dvec.rs
\* ------------------------------------------------------------------------

\* DVec::zero
DVec_zero == [k \in 1 .. D |-> 0]

RECURSIVE SumSquares(_, _, _)
SumSquares(p, q, k) ==
    IF k = 0 THEN 0
    ELSE (p[k] - q[k]) * (p[k] - q[k]) + SumSquares(p, q, k - 1)

\* DVec::distance_squared, in units of 1/Unit^2
distance_squared(p, q) == SumSquares(p, q, D)

\* d2 / Unit^2 < wa^2 * wb^2 * r, with wa, wb squared weights and r = <<num, den>>
WithinWeighted(d2, wa, wb, r) ==
    d2 * wa[2] * wb[2] * r[2] < wa[1] * wb[1] * r[1] * Unit * Unit

\* the radius argument 1.
One == <<1, 1>>

\* ------------------------------------------------------------------------
\* embedding.rs: the brute-force index
\* ------------------------------------------------------------------------

\* Embedding::update_positions
Embedding_update_positions(e, postions) == [e EXCEPT !.positions = postions]

\* Embedding::position / num_nodes
Embedding_position(e, index) == At(e.positions, index)
Embedding_num_nodes(e) == Len(e.positions)

\* the loop of Embedding::nearest_neighbors over the first k zipped entries
RECURSIVE Embedding_scan(_, _, _, _, _)
Embedding_scan(g, e, index, radius, k) ==
    IF k = 0 THEN << >>
    ELSE LET prev == Embedding_scan(g, e, index, radius, k - 1)
             i == k - 1
             distance == distance_squared(Embedding_position(e, index), At(e.positions, i))
         IN  IF WithinWeighted(distance, weight(g, index), weight(g, i), radius)
             THEN Append(prev, i)
             ELSE prev

\* Embedding::nearest_neighbors(index, radius, results): the ids appended
Embedding_nearest_neighbors(g, e, index, radius) ==
    Embedding_scan(g, e, index, radius,
                   Min(index, Min(Len(g.nodes), Len(e.positions))))

\* ------------------------------------------------------------------------
\* atree.rs
\* ------------------------------------------------------------------------

\* leaf bucket size; the source value is 50, scaled so that trees of a few
\* nodes have internal nodes
LEAFSIZE == 2

\* number of lookup-table buckets of a leaf (the literal 50. of Layer::new)
LutSize == 50

\* stand-in for the sign bit of the f32 bit pattern read as i32
SignBit == 1073741824

\* i32::from_ne_bytes(x.to_ne_bytes()): monotone in x for x >= 0; a negative x
\* has the sign bit set, so its key is negative and grows with |x|
SortKey(x) == IF x < 0 THEN (-x) - SignBit ELSE x

\* f32::floor / f32::ceil on fixed-point values
Floor(x) == Unit * (x \div Unit)
Ceil(x) == -Floor(-x)

children(index) == <<index * 2 + 1, index * 2 + 2>>

NodeLayer(split) ==
    [kind |-> "Node", split |-> split, offset |-> 0, len |-> 0, lut |-> << >>,
     min |-> 0, resolution |-> <<0, 1>>]

\* resolution is the rational <<num, den>>; den = 0 is +infinity
LeafLayer(offset, len, lut, min, resolution) ==
    [kind |-> "Leaf", split |-> 0, offset |-> offset, len |-> len, lut |-> lut,
     min |-> min, resolution |-> resolution]

\* insertion of id into a key-sorted sequence (after the entries with equal key)
RECURSIVE InsertByKey(_, _, _, _)
InsertByKey(sorted, id, positions, depth) ==
    IF sorted = << >> THEN <<id>>
    ELSE IF SortKey(At(positions, id)[depth + 1])
              < SortKey(At(positions, Head(sorted))[depth + 1])
         THEN <<id>> \o sorted
         ELSE <<Head(sorted)>> \o InsertByKey(Tail(sorted), id, positions, depth)

\* nodes.sort_unstable_by_key(..): one of the orders the sort may produce
RECURSIVE sort_by_key(_, _, _)
sort_by_key(nodes, positions, depth) ==
    IF nodes = << >> THEN << >>
    ELSE InsertByKey(sort_by_key(SubSeq(nodes, 1, Len(nodes) - 1), positions, depth),
                     nodes[Len(nodes)], positions, depth)

\* d_pos.iter().take_while(|x| x < i / resolution + min).count()
RECURSIVE take_while_count(_, _, _, _)
take_while_count(dpos, i, min, span) ==
    IF dpos = << >> THEN 0
    ELSE IF LutSize * (Head(dpos) - min) < i * span
         THEN 1 + take_while_count(Tail(dpos), i, min, span)
         ELSE 0

\* the lookup table of a leaf; (max - min) * resolution is NaN, cast to 0,
\* when max = min
leaf_lut(dpos, min, max) ==
    IF max = min THEN << >>
    ELSE [i \in 1 .. LutSize |-> take_while_count(dpos, i - 1, min, max - min)]

\* the while loop that moves split_pos left over equal coordinates
RECURSIVE walk_split(_, _, _, _, _)
walk_split(nodes, positions, depth, split, split_pos) ==
    IF split_pos # 0 /\ At(positions, At(nodes, split_pos - 1))[depth + 1] = split
    THEN walk_split(nodes, positions, depth, split, split_pos - 1)
    ELSE split_pos

\* a faulty variant of the slice write below: the slice lands at the front
ReplaceSeg_front(s, offset, seg) ==
    [i \in DOMAIN s |-> IF i <= Len(seg) THEN seg[i] ELSE s[i]]

\* writing through the sub-slice [offset, offset + len) of node_ids or d_pos
ReplaceSeg(s, offset, seg) ==
    [i \in DOMAIN s |->
        IF i > offset /\ i <= offset + Len(seg) THEN seg[i - offset] ELSE s[i]]

\* layers[layer_id] = layer; an index past the end panics
set_layer(st, layer_id, layer) ==
    IF layer_id >= Len(st.layers) THEN [st EXCEPT !.ok = FALSE]
    ELSE [st EXCEPT !.layers[layer_id + 1] = layer]

\* Layer::new on the slice [offset, offset + len) of node_ids and d_pos.
\* st = [node_ids, d_pos, layers, ok]; ok = FALSE after a panic
RECURSIVE Layer_new(_, _, _, _, _, _)
Layer_new(st, len, depth, layer_id, positions, offset) ==
    LET nodes == sort_by_key(SubSeq(st.node_ids, offset + 1, offset + len), positions, depth)
        st1 == [st EXCEPT !.node_ids = ReplaceSeg(st.node_ids, offset, nodes)]
    IN  IF ~st.ok THEN st
        ELSE IF len <= LEAFSIZE
        THEN IF len = 0 THEN [st1 EXCEPT !.ok = FALSE]
             ELSE LET dpos == [i \in 1 .. len |-> At(positions, nodes[i])[depth + 1]]
                      min == Floor(dpos[1])
                      max == Ceil(dpos[len])
                      resolution == <<LutSize * Unit, max - min>>
                      st2 == [st1 EXCEPT !.d_pos = ReplaceSeg(st1.d_pos, offset, dpos)]
                  IN  set_layer(st2, layer_id,
                                LeafLayer(offset, len, leaf_lut(dpos, min, max), min, resolution))
        ELSE LET split == At(positions, At(nodes, len \div 2))[depth + 1]
                 split_pos == walk_split(nodes, positions, depth, split, len \div 2)
                 a == Layer_new(st1, split_pos, (depth + 1) % D, children(layer_id)[1],
                                positions, offset)
                 b == Layer_new(a, len - split_pos, (depth + 1) % D, children(layer_id)[2],
                                positions, offset + split_pos)
             IN  IF ~b.ok THEN b ELSE set_layer(b, layer_id, NodeLayer(split))

\* ATree::update_positions; status = "panic" when an assertion or an index
\* check fails
ATree_update_positions(t, postions) ==
    LET n == Len(postions)
        st0 == [node_ids |-> [i \in 1 .. n |-> i - 1],
                d_pos |-> [i \in 1 .. n |-> 0],
                layers |-> t.layers,
                ok |-> Len(t.layers) = n]
        st == Layer_new(st0, n, 0, 0, postions, 0)
    IN  IF ~st.ok
        THEN [t EXCEPT !.positions = postions, !.layers = << >>, !.status = "panic"]
        ELSE [positions |-> postions,
              positions_sorted |-> [i \in 1 .. n |-> At(postions, st.node_ids[i])],
              node_ids |-> st.node_ids,
              d_pos |-> st.d_pos,
              layers |-> st.layers,
              status |-> "ok"]

\* ATree::new
ATree_new(positions) ==
    LET line_lsh == [positions |-> positions,
                     positions_sorted |-> << >>,
                     node_ids |-> << >>,
                     d_pos |-> << >>,
                     layers |-> [i \in 1 .. Len(positions) |-> NodeLayer(0)],
                     status |-> "ok"]
    IN  IF positions # << >> THEN ATree_update_positions(line_lsh, positions)
        ELSE line_lsh

\* ATree::position / num_nodes
ATree_position(t, index) == At(t.positions, index)
ATree_num_nodes(t) == Len(t.positions)

\* A squared radius of the query is an integer numerator over the common
\* denominator q * Unit^2, q = (radius.den * weight.den)^2; a squared
\* coordinate difference x (in 1/Unit^2) is x * q over the same denominator.

\* idx = ((min - snn.min) * snn.resolution) as usize, min = own_pos - radius_sqrt:
\* bucket k is not beyond it iff LutSize * radius_sqrt <= lut_margin(k)
\* (LutSize and the span of the leaf are taken in lowest terms)
lut_index(snn, own_pos, rho2, q) ==
    LET f == Reduced(<<LutSize, snn.resolution[2]>>)
        base == f[1] * (own_pos - snn.min)
        bound == f[1] * f[1] * rho2
        ok == {k \in 0 .. (Len(snn.lut) - 1) :
                  /\ base - k * f[2] >= 0
                  /\ bound <= (base - k * f[2]) * (base - k * f[2]) * q}
    IN  IF ok = {} THEN 0 ELSE CHOOSE k \in ok : \A j \in ok : j <= k

\* the for loop of the leaf branch from position i; stops at the first p > max
RECURSIVE leaf_scan(_, _, _, _, _, _, _, _, _)
leaf_scan(t, index, own_pos, i, end, rho2, R0, q, results) ==
    IF i >= end THEN results
    ELSE LET p == At(t.d_pos, i)
         IN  IF p - own_pos > 0 /\ (p - own_pos) * (p - own_pos) * q > rho2
             THEN results
             ELSE leaf_scan(t, index, own_pos, i + 1, end, rho2, R0, q,
                     IF distance_squared(ATree_position(t, index), At(t.positions_sorted, i)) * q
                           <= R0
                     THEN Append(results, At(t.node_ids, i))
                     ELSE results)

\* ATree::query_recursive.  acc = [results, underflow]: underflow records that
\* snn.lut.len() - 1 was evaluated on an empty table
RECURSIVE query_recursive(_, _, _, _, _, _, _, _, _)
query_recursive(t, index, depth, layer_id, dim_radius_squared, R0, distances, q, acc) ==
    LET layer == At(t.layers, layer_id)
        own_pos == ATree_position(t, index)[depth + 1]
    IN  IF layer.kind = "Node"
        THEN LET own == IF own_pos < layer.split THEN children(layer_id)[1]
                                                 ELSE children(layer_id)[2]
                 other == IF own_pos < layer.split THEN children(layer_id)[2]
                                                   ELSE children(layer_id)[1]
                 acc1 == query_recursive(t, index, (depth + 1) % D, own,
                                         dim_radius_squared, R0, distances, q, acc)
                 dist == own_pos - layer.split
                 d_2 == dist - distances[depth + 1]
                 x == 2 * distances[depth + 1] * d_2 + d_2 * d_2
                 reduced_radius == dim_radius_squared - x * q
             IN  IF reduced_radius <= 0 THEN acc1
                 ELSE query_recursive(t, index, (depth + 1) % D, other, reduced_radius, R0,
                                      [distances EXCEPT ![depth + 1] = dist], q, acc1)
        ELSE LET dim_diff_squared == distances[depth + 1] * distances[depth + 1]
                 rho2 == dim_radius_squared + dim_diff_squared * q
             IN  IF layer.lut = << >> THEN [acc EXCEPT !.underflow = TRUE]
                 ELSE [acc EXCEPT !.results =
                          leaf_scan(t, index, own_pos,
                                    layer.lut[lut_index(layer, own_pos, rho2, q) + 1] + layer.offset,
                                    layer.offset + layer.len, rho2, R0, q, acc.results)]

\* ATree::nearest_neighbors -> light_nn(index, (radius * weight(index)^2)^2)
\* -> query_recursive(index, 0, 0, radius, radius, zero)
ATree_nearest_neighbors(g, t, index, radius) ==
    LET w == weight(g, index)
        rw == Reduced(<<radius[1] * w[1], radius[2] * w[2]>>)
        q == rw[2] * rw[2]
        R0 == rw[1] * rw[1] * Unit * Unit
    IN  query_recursive(t, index, 0, 0, R0, R0, DVec_zero, q,
                        [results |-> << >>, underflow |-> FALSE])

\* ------------------------------------------------------------------------
\* dynamic_queries.rs
\* ------------------------------------------------------------------------

\* over_query_radius: 1.1, in 1/Unit
over_query_radius == 22

\* last_delta.unwrap_or(10.)
default_deviation == 10

\* The wrapped index `structure` is [kind |-> "Embedding" | "ATree", index |-> ..]
Inner_new(kind, positions) ==
    IF kind = "ATree" THEN [kind |-> kind, index |-> ATree_new(positions)]
    ELSE [kind |-> kind, index |-> [positions |-> positions]]

Inner_update_positions(s, positions) ==
    IF s.kind = "ATree"
    THEN [s EXCEPT !.index = ATree_update_positions(s.index, positions)]
    ELSE [s EXCEPT !.index = Embedding_update_positions(s.index, positions)]

Inner_panicked(s) == s.kind = "ATree" /\ s.index.status = "panic"

Inner_num_nodes(s) ==
    IF s.kind = "ATree" THEN ATree_num_nodes(s.index) ELSE Embedding_num_nodes(s.index)

\* structure.nearest_neighbors: [results, underflow]
Inner_nearest_neighbors(g, s, index, radius) ==
    IF s.kind = "ATree" THEN ATree_nearest_neighbors(g, s.index, index, radius)
    ELSE [results |-> Embedding_nearest_neighbors(g, s.index, index, radius),
          underflow |-> FALSE]

\* an arithmetic underflow panics where overflow checks are compiled in
\* (debug profile) and wraps otherwise
Aborts(build, res) == build = "debug" /\ res.underflow

empty_cache(len) == [i \in 1 .. len |-> << >>]

\* weight > self.weight(id), weight == self.weight(id) on squared weights
HeavierThan(wa, wb) == wa[1] * wb[2] > wb[1] * wa[2]
SameWeight(wa, wb) == wa[1] * wb[2] = wb[1] * wa[2]

\* a faulty variant of the copy below: an array of the same length is kept
DynamicQuery_store_positions_stale(old, positions) ==
    IF Len(old) # Len(positions) THEN positions ELSE old

\* the wrapper's own copy of the positions (replaced, or overwritten in place)
DynamicQuery_store_positions(old, positions) ==
    IF Len(old) # Len(positions) THEN positions
    ELSE [i \in DOMAIN old |-> positions[i]]

\* Option<f64>: None, Some(d) with d in 1/Unit
None == << >>
Some(d) == <<d>>

\* a faulty variant of the test below: the buffer is used up to zero
buffer_exhausted_at_zero(query_buffer, max_deviation) ==
    query_buffer - max_deviation < 0

\* self.query_buffer - max_deviation < 1.
buffer_exhausted(query_buffer, max_deviation) ==
    query_buffer - max_deviation < Unit

\* last_delta.unwrap_or(10.)
unwrap_or_default(last_delta) ==
    IF last_delta = None THEN default_deviation * Unit ELSE last_delta[1]

\* the update_positions call takes the branch that clears every cache
DynamicQuery_clears(dq, positions, last_delta) ==
    /\ positions # << >>
    /\ buffer_exhausted(dq.query_buffer, unwrap_or_default(last_delta))

\* a query in this state takes the branch that fills the slot of its index
\* from the inner index
DynamicQuery_fills(dq) == dq.overquery /\ dq.cache_empty

\* DynamicQuery::update_positions(positions, last_delta)
DynamicQuery_update_positions(dq, positions, last_delta) ==
    IF positions = << >> THEN dq
    ELSE LET max_deviation == unwrap_or_default(last_delta)
             over == Unit + max_deviation < dq.over_query_radius
             d1 == [dq EXCEPT !.positions = DynamicQuery_store_positions(dq.positions, positions),
                              !.overquery = over,
                              !.cache_empty = IF over THEN FALSE ELSE dq.cache_empty]
         IN  IF buffer_exhausted(d1.query_buffer, max_deviation)
             THEN LET inner == Inner_update_positions(d1.structure, positions)
                  IN  [d1 EXCEPT !.structure = inner,
                                 !.cache_empty = TRUE,
                                 !.query_cache = empty_cache(Len(d1.query_cache)),
                                 !.query_buffer = d1.over_query_radius,
                                 !.status = IF Inner_panicked(inner) THEN "panic"
                                            ELSE d1.status]
             ELSE [d1 EXCEPT !.query_buffer = d1.query_buffer - max_deviation]

\* impl Clone for DynamicQuery: fresh empty caches, cache_empty: false
DynamicQuery_clone(dq) ==
    [dq EXCEPT !.query_cache = empty_cache(Len(dq.query_cache)),
               !.cache_empty = FALSE]

\* <DynamicQuery as Embedder>::new
DynamicQuery_new(kind, positions) ==
    LET inner == Inner_new(kind, positions)
        query == [query_cache |-> empty_cache(Len(positions)),
                  structure |-> inner,
                  positions |-> << >>,
                  query_buffer |-> 0,
                  over_query_radius |-> over_query_radius,
                  overquery |-> FALSE,
                  cache_empty |-> TRUE,
                  status |-> IF Inner_panicked(inner) THEN "panic" ELSE "ok"]
    IN  IF query.status = "panic" THEN query
        ELSE DynamicQuery_update_positions(query, positions, None)

\* DynamicQuery::position / num_nodes
DynamicQuery_position(dq, index) == At(dq.positions, index)
DynamicQuery_num_nodes(dq) == Inner_num_nodes(dq.structure)

\* the closures of DynamicQuery::nearest_neighbors
dq_within(g, dq, index, id, radius) ==
    WithinWeighted(distance_squared(DynamicQuery_position(dq, id),
                                    DynamicQuery_position(dq, index)),
                   weight(g, index), weight(g, id), radius)

dq_tie_break(g, index, id) ==
    \/ HeavierThan(weight(g, index), weight(g, id))
    \/ SameWeight(weight(g, index), weight(g, id)) /\ index > id

dq_filter(g, dq, index, id) ==
    /\ ~is_connected(g, index, id)
    /\ dq_tie_break(g, index, id)
    /\ dq_within(g, dq, index, id, <<dq.query_buffer, Unit>>)

dq_radius_one(g, dq, index, id) == dq_within(g, dq, index, id, One)

dq_pos(g, dq, index, id) == dq_within(g, dq, index, id, <<dq.query_buffer, Unit>>)

Retain(s, Keep(_)) == SelectSeq(s, Keep)

\* DynamicQuery::nearest_neighbors(index, radius, results):
\* [dq |-> the wrapper afterwards, results |-> the ids appended, panic |-> aborted]
DynamicQuery_nearest_neighbors(g, build, dq, index, radius) ==
    IF ~dq.overquery
    THEN LET Pass(res) == [dq |-> dq, results |-> res.results, panic |-> Aborts(build, res)]
         IN  LetIn(Inner_nearest_neighbors(g, dq.structure, index, radius), Pass)
    ELSE IF ~(radius[1] * Unit <= dq.query_buffer * radius[2])
    THEN [dq |-> dq, results |-> << >>, panic |-> TRUE]
    ELSE LET guard == At(dq.query_cache, index)
             radius_one(id) == dq_radius_one(g, dq, index, id)
             pos(id) == dq_pos(g, dq, index, id)
             filter(id) == dq_filter(g, dq, index, id)
         IN  IF ~dq.cache_empty
             THEN LET kept == Retain(guard, pos)
                  IN  [dq |-> [dq EXCEPT !.query_cache[index + 1] = kept],
                       results |-> Retain(kept, radius_one),
                       panic |-> FALSE]
             ELSE IF guard # << >>
             THEN [dq |-> dq, results |-> << >>, panic |-> TRUE]
             ELSE LET Fill(res) ==
                          LET kept == Retain(res.results, filter)
                          IN  IF Aborts(build, res)
                              THEN [dq |-> dq, results |-> << >>, panic |-> TRUE]
                              ELSE [dq |-> [dq EXCEPT !.query_cache[index + 1] = kept],
                                    results |-> Retain(kept, radius_one),
                                    panic |-> FALSE]
                  IN  LetIn(Inner_nearest_neighbors(g, dq.structure, index,
                                                    <<dq.over_query_radius, Unit>>), Fill)

\* ------------------------------------------------------------------------
\* query.rs: Embedder::repelling_nodes (default) and the wrapper's override
\* ------------------------------------------------------------------------

\* the retain closure of the default repelling_nodes, on the index's positions
repelling_keep(g, positions, index, x) ==
    /\ index # x
    /\ ~is_connected(g, index, x)
    /\ WithinWeighted(distance_squared(At(positions, x), At(positions, index)),
                      weight(g, index), weight(g, x), One)

\* Embedder::repelling_nodes for the brute-force index
Embedding_repelling_nodes(g, e, index) ==
    LET keep(x) == repelling_keep(g, e.positions, index, x)
    IN  Retain(Embedding_nearest_neighbors(g, e, index, One), keep)

\* Embedder::repelling_nodes for ATree: [results, underflow]
ATree_repelling_nodes(g, t, index) ==
    LET keep(x) == repelling_keep(g, t.positions, index, x)
        Filter(res) == [res EXCEPT !.results = Retain(res.results, keep)]
    IN  LetIn(ATree_nearest_neighbors(g, t, index, One), Filter)

\* DynamicQuery::repelling_nodes: [dq, results, panic]
DynamicQuery_repelling_nodes(g, build, dq, index) ==
    LET keep(x) == /\ repelling_keep(g, dq.positions, index, x)
                   /\ dq_tie_break(g, index, x)
        Filter(res) ==
            IF ~dq.cache_empty \/ dq.overquery THEN res
            ELSE [res EXCEPT !.results = Retain(res.results, keep)]
    IN  LetIn(DynamicQuery_nearest_neighbors(g, build, dq, index, One), Filter)

\* ------------------------------------------------------------------------
\* embedder.rs: WEmbedder<SI, D>
\* ------------------------------------------------------------------------

\* 1 / options.min_position_change of EmbedderOptions::default()
min_position_change_inv == 100000000

\* the spatial index SI of the embedder: [variant, val], variant one of
\* "Embedding", "ATree", "DynamicQuery" (DynamicQuery<_, ATree<_>> as in main.rs)
SI_new(variant, positions) ==
    IF variant = "Embedding" THEN [variant |-> variant, val |-> [positions |-> positions]]
    ELSE IF variant = "ATree" THEN [variant |-> variant, val |-> ATree_new(positions)]
    ELSE [variant |-> variant, val |-> DynamicQuery_new("ATree", positions)]

SI_panicked(si) == si.variant # "Embedding" /\ si.val.status = "panic"

SI_num_nodes(si) ==
    IF si.variant = "Embedding" THEN Embedding_num_nodes(si.val)
    ELSE IF si.variant = "ATree" THEN ATree_num_nodes(si.val)
    ELSE DynamicQuery_num_nodes(si.val)

SI_position(si, index) ==
    IF si.variant = "Embedding" THEN Embedding_position(si.val, index)
    ELSE IF si.variant = "ATree" THEN ATree_position(si.val, index)
    ELSE DynamicQuery_position(si.val, index)

SI_update_positions(si, positions, last_delta) ==
    IF si.variant = "Embedding"
    THEN [si EXCEPT !.val = Embedding_update_positions(si.val, positions)]
    ELSE IF si.variant = "ATree"
    THEN [si EXCEPT !.val = ATree_update_positions(si.val, positions)]
    ELSE [si EXCEPT !.val = DynamicQuery_update_positions(si.val, positions, last_delta)]

\* spatial_index.repelling_nodes(v, cache): [si, results, panic]
SI_repelling_nodes(g, bld, si, v) ==
    IF si.variant = "Embedding"
    THEN [si |-> si, results |-> Embedding_repelling_nodes(g, si.val, v), panic |-> FALSE]
    ELSE IF si.variant = "ATree"
    THEN LET Tree(res) == [si |-> si, results |-> res.results, panic |-> Aborts(bld, res)]
         IN  LetIn(ATree_repelling_nodes(g, si.val, v), Tree)
    ELSE LET Wrapper(res) == [si |-> [si EXCEPT !.val = res.dq], results |-> res.results,
                              panic |-> res.panic]
         IN  LetIn(DynamicQuery_repelling_nodes(g, bld, si.val, v), Wrapper)

\* AdamOptimizer::new / reset: t and, per node, whether the moment estimates
\* m, v have left zero
AdamOptimizer_new(n) == [t |-> 0, moved |-> [i \in 1 .. n |-> FALSE]]
AdamOptimizer_reset(o) == [o EXCEPT !.t = 0, !.moved = [i \in DOMAIN o.moved |-> FALSE]]

\* WEmbedder::new(spatial_index, options)
WEmbedder_new(si, max_iterations) ==
    LET n == SI_num_nodes(si)
    IN  [positions |-> [i \in 1 .. n |-> SI_position(si, i - 1)],
         forces |-> [i \in 1 .. n |-> << >>],
         old_positions |-> [i \in 1 .. n |-> DVec_zero],
         positions_log |-> << >>,
         query_cache |-> [i \in 1 .. n |-> << >>],
         spatial_index |-> si,
         optimizer |-> AdamOptimizer_new(n),
         options |-> [max_iterations |-> max_iterations],
         iteration |-> 0,
         last_relative_change |-> None]

\* distance / (weight_u * weight_v) <= 1.0, on squared quantities
WeightedDistanceLeqOne(d2, wa, wb) ==
    d2 * wa[2] * wb[2] <= wa[1] * wb[1] * Unit * Unit

\* a force is kept as the sequence of its non-zero terms [kind, on, from]
Term(kind, on, from) == <<[kind |-> kind, on |-> on, from |-> from]>>

\* attraction_force(u, v): the force on u towards v
attraction_force(g, positions, u, v) ==
    LET d2 == distance_squared(At(positions, v), At(positions, u))
    IN  IF d2 = 0 THEN Term("random", u, v)
        ELSE IF WeightedDistanceLeqOne(d2, weight(g, u), weight(g, v)) THEN << >>
        ELSE Term("attraction", u, v)

\* repulsion_force(v, u): the force on v away from u
repulsion_force(g, positions, v, u) ==
    LET d2 == distance_squared(At(positions, v), At(positions, u))
    IN  IF d2 = 0 THEN Term("random", v, u)
        ELSE IF ~WeightedDistanceLeqOne(d2, weight(g, v), weight(g, u)) THEN << >>
        ELSE Term("repulsion", v, u)

\* impl Sub for DVec, impl Neg for DVec
DVec_sub(p, q) == [k \in 1 .. D |-> p[k] - q[k]]
DVec_neg(p) == [k \in 1 .. D |-> -p[k]]

\* the vectors DVec::from_fn(|_| rng.random_range(-0.01..0.01)) may draw, in
\* hundredths
JitterSet == [1 .. D -> {-1, 1}]

\* the vectors a force term may denote, as [dir, scale]: the vector is
\* dir * scale, scale > 0. The factor 1 / (distance * weight_factor) is the
\* same for (on, from) and (from, on) and is named by the unordered pair
TermValues(positions, term) ==
    IF term.kind = "random"
    THEN {[dir |-> j, scale |-> {"jitter"}] : j \in JitterSet}
    ELSE IF term.kind = "repulsion"
    THEN {[dir |-> DVec_sub(At(positions, term.on), At(positions, term.from)),
           scale |-> {term.on, term.from}]}
    ELSE {[dir |-> DVec_sub(At(positions, term.from), At(positions, term.on)),
           scale |-> {term.on, term.from}]}

\* the vectors one repulsion_force(v, u) call may return
repulsion_force_values(g, positions, v, u) ==
    LET f == repulsion_force(g, positions, v, u)
    IN  IF f = << >> THEN {[dir |-> DVec_zero, scale |-> {v, u}]}
        ELSE TermValues(positions, f[1])

RECURSIVE SumForces(_, _, _)
\* force += f for every u of the list, from entry k on
SumForces(F(_), list, k) ==
    IF k > Len(list) THEN << >>
    ELSE F(list[k]) \o SumForces(F, list, k + 1)

\* calculate_attraction_forces
calculate_attraction_forces(g, we) ==
    [we EXCEPT !.forces =
        [i \in DOMAIN we.positions |->
            LET f(u) == attraction_force(g, we.positions, i - 1, u)
            IN  SumForces(f, neighbors(g, i - 1), 1)]]

RECURSIVE query_stage(_, _, _, _, _)
\* stage 1 of calculate_repulsion_forces, for the nodes v, v + 1, ..:
\* cache.clear(); repelling_nodes(v, cache); push v on the list of every
\* candidate. acc is [si, query_cache, mirror, panic]
query_stage(g, bld, n, v, acc) ==
    IF v >= n \/ acc.panic THEN acc
    ELSE LET Pushed(res, u) == Len(SelectSeq(res.results, LAMBDA x : x = u))
             PushV(list, k) == list \o [j \in 1 .. k |-> v]
             Store(res) ==
                [si |-> res.si,
                 query_cache |-> [acc.query_cache EXCEPT ![v + 1] = res.results],
                 mirror |-> [u \in DOMAIN acc.mirror |->
                                PushV(acc.mirror[u], Pushed(res, u - 1))],
                 panic |-> res.panic]
             Rest(next) == query_stage(g, bld, n, v + 1, next)
         IN  LetIn(LetIn(SI_repelling_nodes(g, bld, acc.si, v), Store), Rest)

\* stage 2 and the mirror pass, on the outcome q of stage 1
repulsion_stage(g, we, q) ==
    LET n == Len(we.positions)
        cache == [i \in 1 .. n |-> q.query_cache[i] \o q.mirror[i]]
    IN  IF q.panic THEN [we |-> we, panic |-> TRUE]
        ELSE [we |-> [we EXCEPT
                        !.spatial_index = q.si,
                        !.query_cache = cache,
                        !.forces = [i \in 1 .. n |->
                            LET f(u) == repulsion_force(g, we.positions, i - 1, u)
                            IN  we.forces[i] \o SumForces(f, cache[i], 1)]],
              panic |-> FALSE]

\* calculate_repulsion_forces: [we, panic]
calculate_repulsion_forces(g, bld, we) ==
    LET n == Len(we.positions)
        Stage2(q) == repulsion_stage(g, we, q)
    IN  LetIn(query_stage(g, bld, n, 0,
                [si |-> we.spatial_index,
                 query_cache |-> [i \in 1 .. n |-> << >>],
                 mirror |-> [i \in 1 .. n |-> << >>],
                 panic |-> FALSE]), Stage2)

\* the positions AdamOptimizer::update may leave: a node whose moment
\* estimates are still zero stays; any other node keeps its place or moves by
\* step[i]
optimizer_update(o, positions, forces, step) ==
    LET moved == [i \in DOMAIN positions |-> o.moved[i] \/ forces[i] # << >>]
    IN  [optimizer |-> [o EXCEPT !.t = o.t + 1, !.moved = moved],
         positions |-> [i \in DOMAIN positions |->
                           IF moved[i]
                           THEN [k \in 1 .. D |-> positions[i][k] + step[i][k]]
                           ELSE positions[i]]]

\* calculate_step up to the optimizer update: old_positions, the log, the
\* index update and the two force passes: [we, panic]
calculate_step_forces(g, bld, we) ==
    LET w1 == [we EXCEPT
                 !.old_positions = we.positions,
                 !.positions_log =
                     IF we.iteration % 10 = 0
                     THEN Append(we.positions_log, <<we.iteration, we.positions>>)
                     ELSE we.positions_log,
                 !.forces = [i \in DOMAIN we.forces |-> << >>]]
        Repulsion(wa) == calculate_repulsion_forces(g, bld, wa)
        Forces(si) ==
            IF SI_panicked(si) THEN [we |-> [w1 EXCEPT !.spatial_index = si], panic |-> TRUE]
            ELSE LetIn(calculate_attraction_forces(g, [w1 EXCEPT !.spatial_index = si]),
                       Repulsion)
    IN  LetIn(SI_update_positions(w1.spatial_index, w1.positions, w1.last_relative_change),
              Forces)

\* the end of calculate_step, on the outcome r of the force passes: the
\* optimizer update
calculate_step_update(r, step) ==
    IF r.panic THEN r
    ELSE LET u == optimizer_update(r.we.optimizer, r.we.positions, r.we.forces, step)
         IN  [we |-> [r.we EXCEPT !.optimizer = u.optimizer,
                                  !.positions = u.positions],
              panic |-> FALSE]

\* calculate_step: [we, panic]
calculate_step(g, bld, we, step) ==
    calculate_step_update(calculate_step_forces(g, bld, we), step)

RECURSIVE SumOver(_, _)
SumOver(f, k) == IF k = 0 THEN 0 ELSE f[k] + SumOver(f, k - 1)

\* f64::sqrt on the squared displacements that occur (perfect squares)
sqrt(x) == CHOOSE r \in 0 .. x : r * r <= x /\ (r + 1) * (r + 1) > x

\* check_convergence: [we, converged]
check_convergence(we) ==
    LET n == Len(we.positions)
        norm == [i \in 1 .. n |-> distance_squared(we.old_positions[i], DVec_zero)]
        diff == [i \in 1 .. n |-> distance_squared(we.positions[i], we.old_positions[i])]
        sum_norm_squared == SumOver(norm, n)
        sum_diff_squared == SumOver(diff, n)
        max_squared == IF n = 0 THEN 0
                       ELSE CHOOSE m \in Range(diff) : \A x \in Range(diff) : x <= m
    IN  IF sum_norm_squared = 0 THEN [we |-> we, converged |-> FALSE]
        ELSE [we |-> [we EXCEPT !.last_relative_change = Some(sqrt(max_squared))],
              converged |-> sum_diff_squared <=
                                (sum_norm_squared - 1) \div min_position_change_inv]

\* ------------------------------------------------------------------------
\* parsing.rs: the binary position history
\* ------------------------------------------------------------------------

\* A u64 is kept as its four 16-bit limbs, most significant first; an f32 as
\* the two 16-bit halves <<high, low>> of its bit pattern; a file as its bytes.
\* The compilation target is [endian, pointer_width].
U64(n) == <<0, 0, 0, n>>

\* u64::to_le_bytes / u64::from_le_bytes
u64_to_le_bytes(v) ==
    <<v[4] % 256, v[4] \div 256, v[3] % 256, v[3] \div 256,
      v[2] % 256, v[2] \div 256, v[1] % 256, v[1] \div 256>>
u64_from_le_bytes(b) ==
    <<b[8] * 256 + b[7], b[6] * 256 + b[5], b[4] * 256 + b[3], b[2] * 256 + b[1]>>

\* `as usize`: the low 32 bits where usize has 32 bits
as_usize(target, v) == IF target.pointer_width = 32 THEN <<0, 0, v[3], v[4]>> ELSE v

\* a length larger than any file written here
HugeLen == 65536

\* a usize used as a length
usize_len(v) == IF v[1] = 0 /\ v[2] = 0 /\ v[3] = 0 THEN v[4] ELSE HugeLen

\* f32::to_le_bytes
f32_to_le_bytes(x) == <<x[2] % 256, x[2] \div 256, x[1] % 256, x[1] \div 256>>

\* the f32 read in place from four bytes of the mapping, in the byte order of
\* the target
f32_from_ne_bytes(target, b) ==
    IF target.endian = "little"
    THEN <<b[4] * 256 + b[3], b[2] * 256 + b[1]>>
    ELSE <<b[1] * 256 + b[2], b[3] * 256 + b[4]>>

RECURSIVE Flatten(_)
Flatten(ss) == IF ss = << >> THEN << >> ELSE Head(ss) \o Flatten(Tail(ss))

\* the bytes write_test_file writes for one position and for one snapshot
position_bytes(dim, position) ==
    Flatten([i \in 1 .. dim |-> f32_to_le_bytes(position[i])])
snapshot_bytes(dim, snapshot) ==
    u64_to_le_bytes(snapshot[1])
        \o Flatten([j \in DOMAIN snapshot[2] |-> position_bytes(dim, snapshot[2][j])])

\* write_test_file::<dim>(file_path, iterations): File::create leaves an
\* empty file before the history is looked at
write_test_file(dim, iterations) ==
    IF iterations = << >> THEN [ok |-> FALSE, file |-> << >>]
    ELSE [ok |-> TRUE,
          file |-> u64_to_le_bytes(U64(Len(iterations[1][2])))
                      \o u64_to_le_bytes(U64(dim))
                      \o Flatten([k \in DOMAIN iterations |->
                                     snapshot_bytes(dim, iterations[k])])]

\* Vec::from_raw_parts(iteration.as_ptr() as *mut DVec<D>, n, n)
positions_from_raw_parts(target, dim, n, bytes) ==
    [j \in 1 .. n |->
        [i \in 1 .. dim |->
            f32_from_ne_bytes(target,
                SubSeq(bytes, ((j - 1) * dim + i - 1) * 4 + 1, ((j - 1) * dim + i) * 4))]]

\* the loop of parse_positions_file on the rest of the mapping:
\* [status, iterations], status "panic" after a failed unwrap or assert
RECURSIVE parse_iterations(_, _, _, _, _)
parse_iterations(target, dim, n, mmap, iterations) ==
    IF mmap = << >> THEN [status |-> "ok", iterations |-> iterations]
    ELSE IF Len(mmap) < 8 THEN [status |-> "panic", iterations |-> << >>]
    ELSE LET iteration_number == as_usize(target, u64_from_le_bytes(SubSeq(mmap, 1, 8)))
             rest == SubSeq(mmap, 9, Len(mmap))
             byte_size == n * dim * 4
         IN  IF Len(rest) < byte_size THEN [status |-> "panic", iterations |-> << >>]
             ELSE parse_iterations(target, dim, n, SubSeq(rest, byte_size + 1, Len(rest)),
                     Append(iterations,
                            [number |-> iteration_number,
                             positions |-> positions_from_raw_parts(target, dim, n,
                                               SubSeq(rest, 1, byte_size))]))

\* parse_positions_file::<dim>(path) on a file that exists
parse_positions_file(target, dim, file) ==
    IF Len(file) < 16 THEN [status |-> "panic", iterations |-> << >>]
    ELSE LET n == usize_len(as_usize(target, u64_from_le_bytes(SubSeq(file, 1, 8))))
             header_dim == as_usize(target, u64_from_le_bytes(SubSeq(file, 9, 16)))
         IN  IF header_dim # U64(dim) THEN [status |-> "panic", iterations |-> << >>]
             ELSE parse_iterations(target, dim, n, SubSeq(file, 17, Len(file)), << >>)

\* ------------------------------------------------------------------------
\* lsh.rs: the grid-hash index.  A position has LshD coordinates; the first
\* hash level keys on the cells of axes 0, 1 and the second on axes 2, 3.
\* The per-axis sorted copies kept in a leaf are read by no query and are
\* left out.
\* ------------------------------------------------------------------------

LshD == 4

DIM_CHUNK_SIZE == 2

\* test::create_graph(n): n nodes of weight 0.917.. (squared: 0.8415) and no edges
create_graph(n) ==
    [nodes |-> [j \in 1 .. n |-> [weight |-> <<8415, 10000>>,
                                  neighbors |-> << >>,
                                  neighbors_set |-> {}]],
     edges |-> << >>]

\* x.floor() as i8: the cast saturates
floor_as_i8(x) ==
    IF x \div Unit > 127 THEN 127 ELSE IF x \div Unit < -128 THEN -128 ELSE x \div Unit

\* point(pos, dim_offset, dim_count): the one cell key of pos on this level
point(pos, dim_offset, dim_count) ==
    [j \in 1 .. dim_count |-> floor_as_i8(pos[dim_offset + j])]

\* 3usize.pow(dim_count)
RECURSIVE Pow3(_)
Pow3(n) == IF n = 0 THEN 1 ELSE 3 * Pow3(n - 1)

\* offset of the i-th neighbouring cell on the j-th axis of the chunk (j from 0)
box_offset(i, j) == ((i \div Pow3(j)) % 3) - 1

\* dist of the i-th neighbouring cell, in 1/Unit^2: only a step up adds to it
RECURSIVE box_dist(_, _, _, _)
box_dist(pos, dim_offset, i, j) ==
    IF j = 0 THEN 0
    ELSE LET d == dim_offset + j
             diff == pos[d] - Floor(pos[d])
         IN  box_dist(pos, dim_offset, i, j - 1)
               + (IF box_offset(i, j - 1) = 1 THEN (Unit - diff) * (Unit - diff) ELSE 0)

\* result[d - vec_offset] += offset leaves the i8 range
box_overflows(pos, dim_offset, dim_count, i) ==
    \E j \in 1 .. dim_count :
        LET r == floor_as_i8(pos[dim_offset + j]) + box_offset(i, j - 1)
        IN  r > 127 \/ r < -128

\* the i-th cell key with wrapping i8 addition
box_cell(pos, dim_offset, dim_count, i) ==
    [j \in 1 .. dim_count |->
        ((floor_as_i8(pos[dim_offset + j]) + box_offset(i, j - 1) + 128) % 256) - 128]

\* nbig_box(pos, dim_offset, dim_count): the cells i .. total - 1 it yields
RECURSIVE nbig_box_from(_, _, _, _)
nbig_box_from(pos, dim_offset, dim_count, i) ==
    IF i >= Pow3(dim_count) THEN << >>
    ELSE (IF box_dist(pos, dim_offset, i, dim_count) < Unit * Unit
          THEN <<box_cell(pos, dim_offset, dim_count, i)>> ELSE << >>)
         \o nbig_box_from(pos, dim_offset, dim_count, i + 1)

nbig_box(pos, dim_offset, dim_count) == nbig_box_from(pos, dim_offset, dim_count, 0)

\* the addition overflows for one of the cells: a panic where overflow
\* checks are compiled in
nbig_box_overflows(pos, dim_offset, dim_count) ==
    \E i \in 0 .. (Pow3(dim_count) - 1) : box_overflows(pos, dim_offset, dim_count, i)

\* Lsh::update_positions: map[key0][key1] is the list of the ids in that cell
Lsh_update_positions(l, postions) ==
    LET key0(id) == point(At(postions, id), 0, DIM_CHUNK_SIZE)
        key1(id) == point(At(postions, id), DIM_CHUNK_SIZE, DIM_CHUNK_SIZE)
        ids == [i \in 1 .. Len(postions) |-> i - 1]
    IN  [positions |-> postions,
         map |-> [k0 \in {key0(id) : id \in Ids(Len(postions))} |->
                    [k1 \in {key1(id) : id \in {x \in Ids(Len(postions)) : key0(x) = k0}} |->
                        LET here(id) == key0(id) = k0 /\ key1(id) = k1
                        IN  SelectSeq(ids, here)]]]

\* Lsh::new
Lsh_new(positions) ==
    Lsh_update_positions([positions |-> positions, map |-> [k \in {} |-> << >>]], positions)

Lsh_position(l, index) == At(l.positions, index)

\* the distance over all LshD axes, in 1/Unit^2
Lsh_distance_squared(p, q) == SumSquares(p, q, LshD)

\* Lsh::heavy_nn over the first k zipped entries
RECURSIVE heavy_nn(_, _, _, _, _)
heavy_nn(g, l, index, radius, k) ==
    IF k = 0 THEN << >>
    ELSE LET prev == heavy_nn(g, l, index, radius, k - 1)
             distance == Lsh_distance_squared(Lsh_position(l, index), At(l.positions, k - 1))
         IN  IF WithinWeighted(distance, weight(g, index), weight(g, k - 1), radius)
             THEN Append(prev, k - 1)
             ELSE prev

\* the inner loops of light_nn over one leaf list
light_leaf(l, index, list) ==
    LET keep(node) == /\ node # index
                      /\ Lsh_distance_squared(Lsh_position(l, index), Lsh_position(l, node))
                            <= Unit * Unit
    IN  SelectSeq(list, keep)

\* the loop of light_nn over the second-level cells boxes[k ..] of one map
RECURSIVE light_lists(_, _, _, _, _)
light_lists(l, index, spatial_map, boxes, k) ==
    IF k > Len(boxes) THEN << >>
    ELSE (IF boxes[k] \in DOMAIN spatial_map
          THEN light_leaf(l, index, spatial_map[boxes[k]]) ELSE << >>)
         \o light_lists(l, index, spatial_map, boxes, k + 1)

\* the loop of light_nn over the first-level cells boxes[k ..]
RECURSIVE light_maps(_, _, _, _)
light_maps(l, index, boxes, k) ==
    IF k > Len(boxes) THEN << >>
    ELSE (IF boxes[k] \in DOMAIN l.map
          THEN light_lists(l, index, l.map[boxes[k]],
                           nbig_box(Lsh_position(l, index), DIM_CHUNK_SIZE, DIM_CHUNK_SIZE), 1)
          ELSE << >>)
         \o light_maps(l, index, boxes, k + 1)

\* Lsh::light_nn: [results, overflow]
light_nn(l, index) ==
    LET own_pos == Lsh_position(l, index)
        boxes == nbig_box(own_pos, 0, DIM_CHUNK_SIZE)
    IN  [results |-> light_maps(l, index, boxes, 1),
         overflow |->
            \/ nbig_box_overflows(own_pos, 0, DIM_CHUNK_SIZE)
            \/ /\ \E k \in DOMAIN boxes : boxes[k] \in DOMAIN l.map
               /\ nbig_box_overflows(own_pos, DIM_CHUNK_SIZE, DIM_CHUNK_SIZE)]

\* Lsh::nearest_neighbors(index, radius); weight_threshold is 1.
Lsh_nearest_neighbors(g, l, index, radius) ==
    IF weight(g, index)[1] >= weight(g, index)[2]
    THEN [results |-> heavy_nn(g, l, index, radius, Min(Len(g.nodes), Len(l.positions))),
          overflow |-> FALSE]
    ELSE light_nn(l, index)

\* ------------------------------------------------------------------------
\* State
\* ------------------------------------------------------------------------

VARIABLES
    edge_list,   \* the edge list handed to Graph::from_edge_list
    graph,       \* the Graph
    build,       \* "debug" (overflow checks on) or "release"
    pushed,      \* the array passed by the last update_positions call
    emb,         \* the brute-force index (Embedding)
    atree,       \* the ATree index
    dq,          \* the DynamicQuery wrapper
    out,         \* the last query: the index asked, its arguments and its answer
    bound_held,  \* history: every last_delta passed so far bounded the displacement
    hist,        \* a position history, the file written from it and what a
                 \* reader got back
    filled,      \* history: the slots of dq.query_cache an inner over-query has
                 \* written since the caches were last created or cleared
    par,         \* the parallel candidate stage of calculate_repulsion_forces:
                 \* its workers, their buffers, the mirror lists and the mutexes
    lsh,         \* the grid-hash index (Lsh)
    we,          \* the WEmbedder
    run          \* the embed_with_callback activation: its position in the loop,
                 \* the iteration at entry and the calculate_step calls so far

vars ==
    <<edge_list, graph, build, pushed, emb, atree, dq, out, bound_held, hist, filled, par,
      lsh, we, run>>

index_vars == <<build, pushed, emb, atree, dq, out, bound_held>>

embedder_vars == <<we, run>>

NoOut == [op |-> "none", index |-> 0, radius |-> One, results |-> << >>, panic |-> FALSE]

\* updates counts the engine's update_positions calls and delta_bounded tells
\* whether the delta of the last one bounded the displacement since the one
\* before; checked and converged describe a check_convergence call that
\* ended the last step; executed counts the calculate_step calls made
NoRun ==
    [pc |-> "idle", entry_iteration |-> 0, steps |-> 0, calls |-> 0,
     updates |-> 0, delta_bounded |-> TRUE, checked |-> FALSE, converged |-> FALSE,
     executed |-> 0]

\* the candidate stage of an embedder without nodes.  pc, buf (query_cache[v])
\* and next (the position of `for candidate in cache`) are per worker v;
\* mirror (the list in repulsion_mutexes[u]) and mirror_lock per destination
\* u; cache_lock[v] is the mutex of the wrapper's cache slot v; a lock is
\* the set of workers that hold it; unguarded records a push made by a
\* worker that was not the only holder of the mutex; stages counts the
\* stages entered
ParIdle(n) ==
    [stage |-> "idle", stages |-> 0,
     pc |-> [v \in 1 .. n |-> "idle"],
     buf |-> [v \in 1 .. n |-> << >>],
     next |-> [v \in 1 .. n |-> 0],
     mirror |-> [u \in 1 .. n |-> << >>],
     cache_lock |-> [v \in 1 .. n |-> {}],
     mirror_lock |-> [u \in 1 .. n |-> {}],
     unguarded |-> FALSE]

NoPar == ParIdle(0)

\* no grid-hash index constructed
NoLsh == Lsh_new(<< >>)

\* no embedder constructed
NoEmbedder ==
    /\ we = WEmbedder_new(SI_new("Embedding", << >>), 0)
    /\ run = NoRun

\* the targets the crate compiles for
Targets == [endian : {"little", "big"}, pointer_width : {32, 64}]

NoParse == [status |-> "none", dim |-> 0, iterations |-> << >>]

\* no history written
NoHistory ==
    [target |-> [endian |-> "little", pointer_width |-> 64], dim |-> 0,
     iterations |-> << >>, wrote |-> "none", file |-> << >>, parsed |-> NoParse]

\* no index constructed
NoIndex ==
    /\ build = "release"
    /\ pushed = << >>
    /\ emb = [positions |-> << >>]
    /\ atree = ATree_new(<< >>)
    /\ dq = DynamicQuery_new("Embedding", << >>)
    /\ out = NoOut
    /\ bound_held = TRUE

\* ------------------------------------------------------------------------
\* Graph construction
\* ------------------------------------------------------------------------

NodePairs == Ids(MaxNodeId + 1) \X Ids(MaxNodeId + 1)
EdgeLists == UNION {[1 .. n -> NodePairs] : n \in 0 .. MaxEdges}

InitGraph ==
    /\ edge_list \in EdgeLists
    /\ graph = Graph_new
    /\ NoIndex
    /\ hist = NoHistory
    /\ filled = {}
    /\ par = NoPar
    /\ lsh = NoLsh
    /\ NoEmbedder

FromEdgeList ==
    /\ graph = Graph_new
    /\ \E r \in {from_edge_list_result(edge_list)} :
          graph' = IF r.ok THEN r.graph ELSE graph
    /\ UNCHANGED <<edge_list, index_vars, hist, filled, par, lsh, embedder_vars>>

NextGraph == FromEdgeList

SpecGraph == InitGraph /\ [][NextGraph]_vars

\* ------------------------------------------------------------------------
\* Radius queries on a fixed position array: brute force and ATree
\* ------------------------------------------------------------------------

\* the path 0 - 1 - 2, and the same path with the edge (0,1) listed twice
GraphInputs == { << <<0, 1>>, <<1, 2>> >>, << <<0, 1>>, <<0, 1>>, <<1, 2>> >> }

\* radius arguments below 1, equal to 1 and above 1
Radii == {<<1, 2>>, One, <<2, 1>>}

\* coordinates (in 1/Unit) of the position arrays queried
TreeXs == {-12, -5, 5, 15, 40}
TreeYs == {3, 8}
TreePoints == {<<x, y>> : x \in TreeXs, y \in TreeYs}

\* node 0 stays at one point, the other nodes take every point
TreeArrays(n) == {P \in [1 .. n -> TreePoints] : P[1] = <<5, 3>>}

Builds == {"debug", "release"}

InitTree ==
    /\ edge_list \in GraphInputs
    /\ graph = from_edge_list(edge_list)
    /\ build \in Builds
    /\ pushed \in TreeArrays(NumGraphNodes(graph))
    /\ emb = [positions |-> pushed]
    /\ atree = ATree_new(pushed)
    /\ dq = DynamicQuery_new("Embedding", << >>)
    /\ out = NoOut
    /\ bound_held = TRUE
    /\ hist = NoHistory
    /\ filled = {}
    /\ par = NoPar
    /\ lsh = NoLsh
    /\ NoEmbedder

\* emb.nearest_neighbors(index, radius, &mut results)
QueryEmbedding(index, radius) ==
    /\ out' = [op |-> "Embedding", index |-> index, radius |-> radius,
               results |-> Embedding_nearest_neighbors(graph, emb, index, radius),
               panic |-> FALSE]
    /\ UNCHANGED <<edge_list, graph, build, pushed, emb, atree, dq, bound_held, hist, filled, par, lsh, we, run>>

\* atree.nearest_neighbors(index, radius, &mut results)
QueryATree(index, radius) ==
    /\ atree.status = "ok"
    /\ LET res == ATree_nearest_neighbors(graph, atree, index, radius)
       IN  out' = [op |-> "ATree", index |-> index, radius |-> radius,
                   results |-> IF Aborts(build, res) THEN << >> ELSE res.results,
                   panic |-> Aborts(build, res)]
    /\ UNCHANGED <<edge_list, graph, build, pushed, emb, atree, dq, bound_held, hist, filled, par, lsh, we, run>>

NextTree ==
    \/ \E index \in Ids(Len(pushed)), radius \in Radii : QueryEmbedding(index, radius)
    \/ \E index \in Ids(Len(pushed)), radius \in Radii : QueryATree(index, radius)

SpecTree == InitTree /\ [][NextTree]_vars

\* ------------------------------------------------------------------------
\* The three index variants under a sequence of update_positions calls
\* ------------------------------------------------------------------------

\* largest displacement bound (in 1/Unit) passed as last_delta
MaxDelta == 2

Deltas == {None} \cup {Some(d) : d \in 0 .. MaxDelta}

\* position arrays pushed: nodes 0 and 2 (not adjacent) at distance 14, 15 or 16
DynArrays ==
    {<<p0, <<-12, 8>>, <<20, 5>>>> : p0 \in {<<4, 5>>, <<5, 5>>, <<6, 5>>}}

InnerKinds == {"Embedding", "ATree"}

InitIndex ==
    /\ edge_list \in GraphInputs
    /\ graph = from_edge_list(edge_list)
    /\ build = "release"
    /\ pushed \in DynArrays
    /\ emb = [positions |-> pushed]
    /\ atree = ATree_new(pushed)
    /\ \E kind \in InnerKinds : dq = DynamicQuery_new(kind, pushed)
    /\ out = NoOut
    /\ bound_held = TRUE
    /\ hist = NoHistory
    /\ filled = {}
    /\ par = NoPar
    /\ lsh = NoLsh
    /\ NoEmbedder

\* last_delta, when given, is at least the displacement of every node
BoundsDisplacement(last_delta, old, positions) ==
    \/ last_delta = None
    \/ \A i \in DOMAIN positions :
          distance_squared(positions[i], old[i]) <= last_delta[1] * last_delta[1]

\* index.update_positions(positions, last_delta) on each of the three indices
UpdatePositions(positions, last_delta) ==
    /\ Len(positions) = Len(pushed)
    /\ pushed' = positions
    /\ bound_held' = (bound_held /\ BoundsDisplacement(last_delta, pushed, positions))
    /\ emb' = Embedding_update_positions(emb, positions)
    /\ atree' = IF atree.status = "ok" THEN ATree_update_positions(atree, positions)
                ELSE atree
    /\ dq' = IF dq.status = "ok" THEN DynamicQuery_update_positions(dq, positions, last_delta)
             ELSE dq
    /\ out' = NoOut
    /\ UNCHANGED <<edge_list, graph, build, hist, filled, par, lsh, we, run>>

\* dq.nearest_neighbors(index, 1., &mut results)
QueryDynamic(index) ==
    /\ dq.status = "ok"
    /\ LET res == DynamicQuery_nearest_neighbors(graph, build, dq, index, One)
       IN  /\ dq' = IF res.panic THEN [res.dq EXCEPT !.status = "panic"] ELSE res.dq
           /\ out' = [op |-> "DynamicQuery", index |-> index, radius |-> One,
                      results |-> res.results, panic |-> res.panic]
    /\ UNCHANGED <<edge_list, graph, build, pushed, emb, atree, bound_held, hist, filled, par, lsh, we, run>>

\* dq.repelling_nodes(index, &mut results)
RepellingDynamic(index) ==
    /\ dq.status = "ok"
    /\ LET res == DynamicQuery_repelling_nodes(graph, build, dq, index)
       IN  /\ dq' = IF res.panic THEN [res.dq EXCEPT !.status = "panic"] ELSE res.dq
           /\ out' = [op |-> "repelling_nodes", index |-> index, radius |-> One,
                      results |-> res.results, panic |-> res.panic]
    /\ UNCHANGED <<edge_list, graph, build, pushed, emb, atree, bound_held, hist, filled, par, lsh, we, run>>

NextIndex ==
    \/ \E positions \in DynArrays, last_delta \in Deltas :
          UpdatePositions(positions, last_delta)
    \/ \E index \in Ids(Len(pushed)) : QueryDynamic(index)
    \/ \E index \in Ids(Len(pushed)) : RepellingDynamic(index)

SpecIndex == InitIndex /\ [][NextIndex]_vars

\* ------------------------------------------------------------------------
\* The wrapper and its caches under update_positions, queries and clone
\* ------------------------------------------------------------------------

InitCache ==
    /\ edge_list = << <<0, 1>>, <<1, 2>> >>
    /\ graph = from_edge_list(edge_list)
    /\ build = "release"
    /\ pushed \in DynArrays
    /\ emb = [positions |-> pushed]
    /\ atree = ATree_new(pushed)
    /\ \E kind \in InnerKinds : dq = DynamicQuery_new(kind, pushed)
    /\ out = NoOut
    /\ bound_held = TRUE
    /\ hist = NoHistory
    /\ filled = {}
    /\ par = NoPar
    /\ lsh = NoLsh
    /\ NoEmbedder

\* dq.update_positions(positions, last_delta)
CacheUpdate(positions, last_delta) ==
    /\ dq.status = "ok"
    /\ Len(positions) = Len(pushed)
    /\ pushed' = positions
    /\ dq' = DynamicQuery_update_positions(dq, positions, last_delta)
    /\ filled' = IF DynamicQuery_clears(dq, positions, last_delta) THEN {} ELSE filled
    /\ out' = [NoOut EXCEPT !.op = "update_positions"]
    /\ UNCHANGED <<edge_list, graph, build, emb, atree, bound_held, hist, par, lsh, we, run>>

\* dq.nearest_neighbors(index, 1., &mut results)
CacheQuery(index) ==
    /\ dq.status = "ok"
    /\ \E res \in {DynamicQuery_nearest_neighbors(graph, build, dq, index, One)} :
          /\ dq' = IF res.panic THEN [res.dq EXCEPT !.status = "panic"] ELSE res.dq
          /\ filled' = IF DynamicQuery_fills(dq) /\ ~res.panic
                        THEN filled \cup {index} ELSE filled
          /\ out' = [op |-> "DynamicQuery", index |-> index, radius |-> One,
                      results |-> res.results, panic |-> res.panic]
    /\ UNCHANGED <<edge_list, graph, build, pushed, emb, atree, bound_held, hist, par, lsh, we, run>>

\* dq.repelling_nodes(index, &mut results)
CacheRepelling(index) ==
    /\ dq.status = "ok"
    /\ \E res \in {DynamicQuery_repelling_nodes(graph, build, dq, index)} :
          /\ dq' = IF res.panic THEN [res.dq EXCEPT !.status = "panic"] ELSE res.dq
          /\ filled' = IF DynamicQuery_fills(dq) /\ ~res.panic
                        THEN filled \cup {index} ELSE filled
          /\ out' = [op |-> "repelling_nodes", index |-> index, radius |-> One,
                      results |-> res.results, panic |-> res.panic]
    /\ UNCHANGED <<edge_list, graph, build, pushed, emb, atree, bound_held, hist, par, lsh, we, run>>

\* dq = dq.clone()
CacheClone ==
    /\ dq.status = "ok"
    /\ dq' = DynamicQuery_clone(dq)
    /\ filled' = {}
    /\ out' = [NoOut EXCEPT !.op = "clone"]
    /\ UNCHANGED <<edge_list, graph, build, pushed, emb, atree, bound_held, hist, par, lsh, we, run>>

NextCache ==
    \/ \E positions \in DynArrays, last_delta \in Deltas : CacheUpdate(positions, last_delta)
    \/ \E index \in Ids(Len(pushed)) : CacheQuery(index)
    \/ \E index \in Ids(Len(pushed)) : CacheRepelling(index)
    \/ CacheClone

SpecCache == InitCache /\ [][NextCache]_vars

\* ------------------------------------------------------------------------
\* Stage 1 of calculate_repulsion_forces: one worker per node v, in any
\* interleaving, with a DynamicQuery as the spatial index
\* ------------------------------------------------------------------------

\* a faulty variant of the test below: the mutex is handed out while held
can_lock_always(holders) == TRUE

\* Mutex::lock returns once no other thread holds the mutex
can_lock(holders) == holders = {}

\* a faulty variant of the release below: the guard is never dropped
release_nothing(holders, v) == holders

\* dropping the MutexGuard of worker v
release(holders, v) == holders \ {v}

MaxStages == 2

\* two disjoint edges: four nodes of equal weight, (0,2), (0,3), (1,2), (1,3)
\* not adjacent
MirrorEdges == << <<0, 1>>, <<2, 3>> >>

\* four nodes close to each other, and the same with node 3 far away
MirrorArrays ==
    { <<<<5, 3>>, <<6, 8>>, <<7, 3>>, <<8, 8>>>>, <<<<5, 3>>, <<6, 8>>, <<7, 3>>, <<48, 8>>>> }

\* the update_positions calls made on the index before the stage
MirrorUpdates == { << >>, <<Some(2)>>, <<Some(2), Some(1)>> }

RECURSIVE UpdatedBy(_, _, _)
UpdatedBy(d, positions, deltas) ==
    IF deltas = << >> THEN d
    ELSE UpdatedBy(DynamicQuery_update_positions(d, positions, Head(deltas)),
                   positions, Tail(deltas))

InitMirrorWith(kinds) ==
    /\ edge_list = MirrorEdges
    /\ graph = from_edge_list(edge_list)
    /\ build = "release"
    /\ pushed \in MirrorArrays
    /\ emb = [positions |-> pushed]
    /\ atree = ATree_new(pushed)
    /\ \E kind \in kinds, deltas \in MirrorUpdates :
          dq = UpdatedBy(DynamicQuery_new(kind, pushed), pushed, deltas)
    /\ dq.status = "ok"
    /\ out = NoOut
    /\ bound_held = TRUE
    /\ hist = NoHistory
    /\ filled = {}
    /\ par = ParIdle(Len(pushed))
    /\ lsh = NoLsh
    /\ NoEmbedder

InitMirror == InitMirrorWith(InnerKinds)

\* the same with the inner index that answers by comparing all nodes: the
\* locks taken do not depend on the inner index
InitMirrorFair == InitMirrorWith({"Embedding"})

mirror_unchanged ==
    UNCHANGED <<edge_list, graph, build, pushed, emb, atree, out, bound_held, hist, filled,
                lsh, we, run>>

\* the sequential clear of the mirror lists, then the workers are spawned
EnterStage ==
    /\ par.stage = "idle"
    /\ par.stages < MaxStages
    /\ par' = [par EXCEPT !.stage = "running",
                          !.stages = par.stages + 1,
                          !.mirror = [u \in DOMAIN par.mirror |-> << >>],
                          !.pc = [v \in DOMAIN par.pc |-> "start"],
                          !.next = [v \in DOMAIN par.next |-> 0]]
    /\ UNCHANGED dq
    /\ mirror_unchanged

\* cache.clear()
ClearCache(v) ==
    /\ par.stage = "running"
    /\ At(par.pc, v) = "start"
    /\ par' = [par EXCEPT !.buf[v + 1] = << >>, !.pc[v + 1] = "call"]
    /\ UNCHANGED dq
    /\ mirror_unchanged

\* spatial_index.repelling_nodes(v, cache) when the wrapper is not in
\* over-query mode: nearest_neighbors returns the inner answer and takes no
\* lock
CallDirect(v) ==
    /\ par.stage = "running"
    /\ At(par.pc, v) = "call"
    /\ ~dq.overquery
    /\ \E res \in {DynamicQuery_repelling_nodes(graph, build, dq, v)} :
          /\ dq' = res.dq
          /\ par' = [par EXCEPT !.buf[v + 1] = res.results,
                                !.pc[v + 1] = IF res.panic THEN "panicked" ELSE "push"]
    /\ mirror_unchanged

\* self.query_cache[index].lock().unwrap() in nearest_neighbors; the
\* assertion on the radius before it is evaluated with the answer
LockCache(v) ==
    /\ par.stage = "running"
    /\ At(par.pc, v) = "call"
    /\ dq.overquery
    /\ can_lock(At(par.cache_lock, v))
    /\ par' = [par EXCEPT !.cache_lock[v + 1] = At(par.cache_lock, v) \cup {v},
                          !.pc[v + 1] = "query"]
    /\ UNCHANGED dq
    /\ mirror_unchanged

\* the rest of nearest_neighbors and of repelling_nodes; the guard is
\* dropped at the return (or by the unwinding of a panic)
AnswerLocked(v) ==
    /\ par.stage = "running"
    /\ At(par.pc, v) = "query"
    /\ \E res \in {DynamicQuery_repelling_nodes(graph, build, dq, v)} :
          /\ dq' = res.dq
          /\ par' = [par EXCEPT !.buf[v + 1] = res.results,
                                !.cache_lock[v + 1] = release(At(par.cache_lock, v), v),
                                !.pc[v + 1] = IF res.panic THEN "panicked" ELSE "push"]
    /\ mirror_unchanged

\* the candidate the loop of worker v is at
candidate(v) == At(At(par.buf, v), At(par.next, v))

\* self.repulsion_mutexes[*candidate].lock().unwrap()
LockMirror(v) ==
    /\ par.stage = "running"
    /\ At(par.pc, v) = "push"
    /\ At(par.next, v) < Len(At(par.buf, v))
    /\ can_lock(At(par.mirror_lock, candidate(v)))
    /\ par' = [par EXCEPT !.mirror_lock[candidate(v) + 1] =
                              At(par.mirror_lock, candidate(v)) \cup {v},
                          !.pc[v + 1] = "locked"]
    /\ UNCHANGED dq
    /\ mirror_unchanged

\* .push(v)
PushMirror(v) ==
    /\ par.stage = "running"
    /\ At(par.pc, v) = "locked"
    /\ par' = [par EXCEPT !.mirror[candidate(v) + 1] =
                              Append(At(par.mirror, candidate(v)), v),
                          !.unguarded = par.unguarded
                                          \/ At(par.mirror_lock, candidate(v)) # {v},
                          !.pc[v + 1] = "pushed"]
    /\ UNCHANGED dq
    /\ mirror_unchanged

\* the guard is dropped at the end of the statement
UnlockMirror(v) ==
    /\ par.stage = "running"
    /\ At(par.pc, v) = "pushed"
    /\ par' = [par EXCEPT !.mirror_lock[candidate(v) + 1] =
                              release(At(par.mirror_lock, candidate(v)), v),
                          !.next[v + 1] = At(par.next, v) + 1,
                          !.pc[v + 1] = "push"]
    /\ UNCHANGED dq
    /\ mirror_unchanged

\* the loop over cache ends: the closure of worker v returns
FinishWorker(v) ==
    /\ par.stage = "running"
    /\ At(par.pc, v) = "push"
    /\ At(par.next, v) = Len(At(par.buf, v))
    /\ par' = [par EXCEPT !.pc[v + 1] = "done"]
    /\ UNCHANGED dq
    /\ mirror_unchanged

Worker(v) ==
    \/ ClearCache(v)
    \/ CallDirect(v)
    \/ LockCache(v)
    \/ AnswerLocked(v)
    \/ LockMirror(v)
    \/ PushMirror(v)
    \/ UnlockMirror(v)
    \/ FinishWorker(v)

\* every worker has returned or panicked
AllAtJoin == \A v \in DOMAIN par.pc : par.pc[v] \in {"done", "panicked"}

\* for_each returns; the panic of a worker is resumed here
JoinStage ==
    /\ par.stage = "running"
    /\ AllAtJoin
    /\ par' = [par EXCEPT !.stage = IF \E v \in DOMAIN par.pc : par.pc[v] = "panicked"
                                     THEN "panicked" ELSE "joined"]
    /\ UNCHANGED dq
    /\ mirror_unchanged

\* cache.extend(candidates.lock().unwrap().drain(..)) for every node
DrainMirrors ==
    /\ par.stage = "joined"
    /\ par' = [par EXCEPT !.stage = "idle",
                          !.buf = [v \in DOMAIN par.buf |-> par.buf[v] \o par.mirror[v]],
                          !.mirror = [u \in DOMAIN par.mirror |-> << >>],
                          !.pc = [v \in DOMAIN par.pc |-> "idle"]]
    /\ UNCHANGED dq
    /\ mirror_unchanged

NextMirror ==
    \/ EnterStage
    \/ \E v \in Ids(Len(pushed)) : Worker(v)
    \/ JoinStage
    \/ DrainMirrors

SpecMirror == InitMirror /\ [][NextMirror]_vars

\* every worker thread and the joining thread keep being scheduled
SpecMirrorFair ==
    /\ InitMirrorFair
    /\ [][NextMirror]_vars
    /\ \A v \in Ids(Len(MirrorEdges) * 2) : WF_vars(Worker(v))
    /\ WF_vars(JoinStage)

\* ------------------------------------------------------------------------
\* The grid-hash index on light nodes
\* ------------------------------------------------------------------------

\* coordinates (in 1/Unit) on axis 0: 3.0, 3.5, 4.0 and 127.5; on axis 2: 1.5, 4.5
LshXs == {60, 70, 80, 2550}
LshZs == {30, 90}
LshPoints == {<<x, 30, z, 30>> : x \in LshXs, z \in LshZs}

MaxLshNodes == 2

LshArrays == [1 .. MaxLshNodes -> LshPoints]

InitLsh ==
    /\ edge_list = << >>
    /\ graph = create_graph(MaxLshNodes)
    /\ build \in Builds
    /\ pushed \in LshArrays
    /\ emb = [positions |-> << >>]
    /\ atree = ATree_new(<< >>)
    /\ dq = DynamicQuery_new("Embedding", << >>)
    /\ out = NoOut
    /\ bound_held = TRUE
    /\ hist = NoHistory
    /\ filled = {}
    /\ par = NoPar
    /\ lsh = Lsh_new(pushed)
    /\ NoEmbedder

\* lsh.update_positions(positions)
UpdateLsh(positions) ==
    /\ pushed' = positions
    /\ lsh' = Lsh_update_positions(lsh, positions)
    /\ out' = [NoOut EXCEPT !.op = "update_positions"]
    /\ UNCHANGED <<edge_list, graph, build, emb, atree, dq, bound_held, hist, filled, par,
                   we, run>>

\* lsh.nearest_neighbors(index, 1.)
QueryLsh(index) ==
    /\ \E res \in {Lsh_nearest_neighbors(graph, lsh, index, One)} :
          out' = [op |-> "Lsh", index |-> index, radius |-> One,
                  results |-> IF Aborts(build, [underflow |-> res.overflow]) THEN << >>
                              ELSE res.results,
                  panic |-> Aborts(build, [underflow |-> res.overflow])]
    /\ UNCHANGED <<edge_list, graph, build, pushed, emb, atree, dq, bound_held, hist, filled,
                   par, lsh, we, run>>

NextLsh ==
    \/ \E positions \in LshArrays : UpdateLsh(positions)
    \/ \E index \in Ids(Len(pushed)) : QueryLsh(index)

SpecLsh == InitLsh /\ [][NextLsh]_vars

\* ------------------------------------------------------------------------
\* The embedder: WEmbedder::new on a graph and starting positions, then
\* embed() calls
\* ------------------------------------------------------------------------

MaxIterations == 2
MaxCalls == 3

\* the index type SI the embedder is instantiated with
Variants == {"Embedding", "ATree", "DynamicQuery"}

\* the graphs embedded: the two paths and the triangle, whose weights are all 1
EmbedGraphs == GraphInputs \cup { << <<0, 1>>, <<1, 2>>, <<2, 0>> >> }

\* the position arrays the embedder starts from; in the third, nodes 0 and 2
\* are at distance 1, and in the last every node is at the origin
EmbedArrays ==
    { <<<<6, 5>>, <<30, 8>>, <<20, 5>>>>, <<<<5, 5>>, <<30, 8>>, <<21, 5>>>>,
      <<<<5, 5>>, <<30, 8>>, <<25, 5>>>>, <<<<0, 0>>, <<0, 0>>, <<0, 0>>>> }

\* per-node displacements an optimizer update may produce
StepSet == { <<0, 0>>, <<1, 0>> }
Steps(n) == [1 .. n -> StepSet]

InitEmbed ==
    /\ edge_list \in EmbedGraphs
    /\ graph = from_edge_list(edge_list)
    /\ build = "release"
    /\ pushed \in EmbedArrays
    /\ emb = [positions |-> pushed]
    /\ atree = ATree_new(pushed)
    /\ dq = DynamicQuery_new("ATree", pushed)
    /\ out = NoOut
    /\ bound_held = TRUE
    /\ hist = NoHistory
    /\ filled = {}
    /\ par = NoPar
    /\ lsh = NoLsh
    /\ \E variant \in Variants, max_iterations \in 0 .. MaxIterations :
       \E si \in {SI_new(variant, pushed)} :
          /\ ~SI_panicked(si)
          /\ we = WEmbedder_new(si, max_iterations)
    /\ run = NoRun

\* embed_with_callback up to the loop: optimizer.reset()
EmbedEnter ==
    /\ run.pc \in {"idle", "returned"}
    /\ run.calls < MaxCalls
    /\ we' = [we EXCEPT !.optimizer = AdamOptimizer_reset(we.optimizer)]
    /\ run' = [run EXCEPT !.pc = "loop", !.entry_iteration = we.iteration,
                           !.steps = 0, !.calls = run.calls + 1]
    /\ UNCHANGED <<edge_list, graph, index_vars, hist, filled, par, lsh>>

\* run after the update_positions(positions, last_relative_change) call of a
\* calculate_step: old_positions is the array of the call before
UpdateMade ==
    [run EXCEPT
        !.updates = IF run.updates < 2 THEN run.updates + 1 ELSE run.updates,
        !.delta_bounded = run.updates = 0
            \/ BoundsDisplacement(we.last_relative_change, we.old_positions, we.positions),
        !.checked = FALSE,
        !.executed = run.executed + 1]

\* one pass of the loop: callback, iteration += 1, calculate_step, then the
\* break test check_convergence() || iteration >= max_iterations
EmbedStep ==
    /\ run.pc = "loop"
    /\ \E w \in {[we EXCEPT !.iteration = we.iteration + 1]} :
       \E f \in {calculate_step_forces(graph, build, w)} :
       \E step \in Steps(Len(we.positions)) :
       \E r \in {calculate_step_update(f, step)} :
       \E c \in {check_convergence(r.we)} :
       \E u \in {UpdateMade} :
           IF r.panic
           THEN /\ we' = r.we
                /\ run' = [u EXCEPT !.pc = "panicked", !.steps = run.steps + 1]
           ELSE /\ we' = c.we
                /\ run' = [u EXCEPT
                             !.steps = run.steps + 1,
                             !.checked = TRUE,
                             !.converged = c.converged,
                             !.pc = IF c.converged
                                       \/ c.we.iteration >= c.we.options.max_iterations
                                    THEN "returned" ELSE "loop"]
    /\ UNCHANGED <<edge_list, graph, index_vars, hist, filled, par, lsh>>

\* calculate_step() called by the owner of the embedder, outside embed()
CalculateStep ==
    /\ run.pc \in {"idle", "returned"}
    /\ run.calls < MaxCalls
    /\ \E f \in {calculate_step_forces(graph, build, we)} :
       \E step \in Steps(Len(we.positions)) :
       \E r \in {calculate_step_update(f, step)} :
       \E u \in {UpdateMade} :
          /\ we' = r.we
          /\ run' = [u EXCEPT !.calls = run.calls + 1,
                              !.pc = IF r.panic THEN "panicked" ELSE run.pc]
    /\ UNCHANGED <<edge_list, graph, index_vars, hist, filled, par, lsh>>

NextEmbed ==
    \/ EmbedEnter
    \/ EmbedStep
    \/ CalculateStep

SpecEmbed == InitEmbed /\ [][NextEmbed]_vars

\* ------------------------------------------------------------------------
\* A position history written to a file and read back
\* ------------------------------------------------------------------------

\* the const D of the writer and of the reader
HistoryDims == {1, 2}

MaxSnapshots == 2
MaxHistoryNodes == 2

\* f32 bit patterns: 1.0 (0x3F800000) and 0.1 (0x3DCCCCCD)
F32Values == { <<16256, 0>>, <<15820, 52429>> }

\* iteration numbers: 0, 10 and 2^32
IterationNumbers == { U64(0), U64(10), <<0, 1, 0, 0>> }

\* positions of a snapshot: the first component of node 0 varies
HistoryArrays(dim, n) ==
    { P \in [1 .. n -> [1 .. dim -> F32Values]] :
        \A j \in 1 .. n : \A i \in 1 .. dim :
            (j # 1 \/ i # 1) => P[j][i] = <<16256, 0>> }

\* the histories written: up to MaxSnapshots snapshots of one length
Histories(dim) ==
    UNION { [1 .. k -> IterationNumbers \X HistoryArrays(dim, n)] :
                k \in 0 .. MaxSnapshots, n \in 1 .. MaxHistoryNodes }

InitHistory ==
    /\ edge_list = << >>
    /\ graph = Graph_new
    /\ NoIndex
    /\ NoEmbedder
    /\ filled = {}
    /\ par = NoPar
    /\ lsh = NoLsh
    /\ \E target \in Targets, dim \in HistoryDims :
       \E iterations \in Histories(dim) :
          hist = [NoHistory EXCEPT !.target = target, !.dim = dim,
                                   !.iterations = iterations]

\* write_test_file::<hist.dim>(path, &hist.iterations)
WriteTestFile ==
    /\ hist.wrote = "none"
    /\ \E w \in {write_test_file(hist.dim, hist.iterations)} :
          hist' = [hist EXCEPT !.wrote = IF w.ok THEN "ok" ELSE "err", !.file = w.file]
    /\ UNCHANGED <<edge_list, graph, index_vars, embedder_vars, filled, par, lsh>>

\* parse_positions_file::<dim>(path) on the file written
ParsePositionsFile(dim) ==
    /\ hist.wrote # "none"
    /\ hist.parsed.status = "none"
    /\ \E r \in {parse_positions_file(hist.target, dim, hist.file)} :
          hist' = [hist EXCEPT !.parsed = [status |-> r.status, dim |-> dim,
                                           iterations |-> r.iterations]]
    /\ UNCHANGED <<edge_list, graph, index_vars, embedder_vars, filled, par, lsh>>

NextHistory ==
    \/ WriteTestFile
    \/ \E dim \in HistoryDims : ParsePositionsFile(dim)

SpecHistory == InitHistory /\ [][NextHistory]_vars

\* ------------------------------------------------------------------------
\* ATree construction followed by update_positions calls
\* ------------------------------------------------------------------------

MaxTreeNodes == 4

RebuildPoints == {<<x, y>> : x \in {-12, -5, 15}, y \in {3, Unit}}

\* arrays of MaxTreeNodes - 1 or MaxTreeNodes nodes, node 0 at one point
RebuildArrays ==
    UNION {{P \in [1 .. n -> RebuildPoints] : P[1] = <<-5, 3>>} :
              n \in {MaxTreeNodes - 1, MaxTreeNodes}}

\* the arrays that differ from positions in at most one node
MovedArrays(positions) ==
    {[positions EXCEPT ![i] = p] : i \in DOMAIN positions, p \in RebuildPoints}

InitATree ==
    /\ edge_list = << >>
    /\ graph = Graph_new
    /\ build = "release"
    /\ pushed \in RebuildArrays
    /\ emb = [positions |-> pushed]
    /\ atree = ATree_new(pushed)
    /\ dq = DynamicQuery_new("Embedding", << >>)
    /\ out = NoOut
    /\ bound_held = TRUE
    /\ hist = NoHistory
    /\ filled = {}
    /\ par = NoPar
    /\ lsh = NoLsh
    /\ NoEmbedder

\* atree.update_positions(positions) on a tree that has not panicked
UpdateATree(positions) ==
    /\ atree.status = "ok"
    /\ pushed' = positions
    /\ emb' = Embedding_update_positions(emb, positions)
    /\ atree' = ATree_update_positions(atree, positions)
    /\ out' = [NoOut EXCEPT !.op = "update_positions"]
    /\ UNCHANGED <<edge_list, graph, build, dq, bound_held, hist, filled, par, lsh, we, run>>

NextATree == \E positions \in MovedArrays(pushed) : UpdateATree(positions)

SpecATree == InitATree /\ [][NextATree]_vars

\* ------------------------------------------------------------------------
\* Properties
\* ------------------------------------------------------------------------

NodeIds == Ids(NumGraphNodes(graph))

\* unordered pairs {u, v}, u # v, with u in NN(v): the symmetric closure
SymmetricClosure(NN(_)) ==
    UNION {{{u, v} : u \in Range(NN(v)) \ {v}} : v \in NodeIds}

\* ||P[v] - P[u]||^2 < (weight(v) * weight(u))^2 * radius
TrueNeighbor(positions, v, u, radius) ==
    WithinWeighted(distance_squared(At(positions, v), At(positions, u)),
                   weight(graph, v), weight(graph, u), radius)

\* no ATree query of the current tree aborts
ATreeAnswers(radius) ==
    /\ atree.status = "ok"
    /\ \A v \in NodeIds : ~Aborts(build, ATree_nearest_neighbors(graph, atree, v, radius))

ATreeNN(v, radius) == ATree_nearest_neighbors(graph, atree, v, radius).results
EmbeddingNN(v, radius) == Embedding_nearest_neighbors(graph, emb, v, radius)

\* C1: on the same positions, weights and radius argument, the symmetric
\* closure of the ATree results equals that of the brute-force results.
C1_IndexEquivalence ==
    \A radius \in Radii :
        ATreeAnswers(radius) =>
            LET A(v) == ATreeNN(v, radius)
                B(v) == EmbeddingNN(v, radius)
            IN  SymmetricClosure(A) = SymmetricClosure(B)

\* C2: at every radius argument, every pair the brute-force index reports in
\* either direction is reported by ATree in at least one direction.
C2_NoFalseNegatives ==
    \A radius \in Radii :
        ATreeAnswers(radius) =>
            LET A(v) == ATreeNN(v, radius)
                B(v) == EmbeddingNN(v, radius)
            IN  SymmetricClosure(B) \subseteq SymmetricClosure(A)

\* the positions held by the index that answered the last query
AnsweringPositions ==
    IF out.op = "Embedding" THEN emb.positions
    ELSE IF out.op = "ATree" THEN atree.positions
    ELSE dq.positions

\* C3: every id u appended by nearest_neighbors(v, radius, out), on any index
\* variant, has u # v and lies within the weighted radius of v on the
\* index's current positions.
C3_QuerySound ==
    (out.op \in {"Embedding", "ATree", "DynamicQuery"} /\ ~out.panic) =>
        \A i \in DOMAIN out.results :
            /\ out.results[i] # out.index
            /\ TrueNeighbor(AnsweringPositions, out.index, out.results[i], out.radius)

\* the endpoint of a pair that the wrapper's tie-break selects
Selected(v, u) == dq_tie_break(graph, v, u)

\* C4: with every last_delta an upper bound on the displacement, a radius-1
\* query answered in over-query mode (a) emits only true radius-1 neighbours
\* and (b) emits every non-adjacent true neighbour at the selected endpoint.
C4_OverQueryCorrect ==
    (dq.status = "ok" /\ bound_held /\ dq.overquery) =>
        \A v \in NodeIds :
            LET res == DynamicQuery_nearest_neighbors(graph, build, dq, v, One)
            IN  ~res.panic =>
                  /\ \A i \in DOMAIN res.results :
                        /\ res.results[i] # v
                        /\ TrueNeighbor(pushed, v, res.results[i], One)
                  /\ \A u \in NodeIds \ {v} :
                        (/\ ~is_connected(graph, v, u)
                         /\ TrueNeighbor(pushed, v, u, One)
                         /\ Selected(v, u)) => u \in Range(res.results)

\* every repelling_nodes call on the wrapper in the current state answers
DynamicAnswers ==
    /\ dq.status = "ok"
    /\ \A v \in NodeIds : ~DynamicQuery_repelling_nodes(graph, build, dq, v).panic

\* C5: when the wrapper passes through or has just refreshed its cache, the
\* symmetric closure of its repelling_nodes equals that of the brute-force
\* index's default repelling_nodes on the same positions, for either inner
\* index.
C5_WrapperParity ==
    (DynamicAnswers /\ (~dq.overquery \/ dq.cache_empty)) =>
        LET W(v) == DynamicQuery_repelling_nodes(graph, build, dq, v).results
            B(v) == Embedding_repelling_nodes(graph, emb, v)
        IN  SymmetricClosure(W) = SymmetricClosure(B)

\* C6: after the mirror pass of calculate_repulsion_forces, query_cache[v]
\* holds each candidate u at most once, whichever directions the index reports.
C6_EachPairOnce ==
    run.pc \in {"loop", "returned"} =>
        \A v \in DOMAIN we.query_cache :
            \A i, j \in DOMAIN we.query_cache[v] :
                i # j => we.query_cache[v][i] # we.query_cache[v][j]

\* C7: no call on the wrapper aborts.
C7_WrapperNeverFails == dq.status # "panic"

\* C8: embed() returns after at most max(0, max_iterations - iteration at
\* entry) calls of calculate_step.
C8_StepsBounded ==
    run.pc = "returned" =>
        run.steps <= Max(0, we.options.max_iterations - run.entry_iteration)

\* C9: after update_positions(P, .) every index variant reports position(v) =
\* P[v] and num_nodes() = N, until the next update_positions call.
C9_PositionsStored ==
    /\ \A v \in Ids(Len(pushed)) : Embedding_position(emb, v) = At(pushed, v)
    /\ Embedding_num_nodes(emb) = Len(pushed)
    /\ atree.status = "ok" =>
          /\ \A v \in Ids(Len(pushed)) : ATree_position(atree, v) = At(pushed, v)
          /\ ATree_num_nodes(atree) = Len(pushed)
    /\ dq.status = "ok" =>
          /\ \A v \in Ids(Len(pushed)) : DynamicQuery_position(dq, v) = At(pushed, v)
          /\ DynamicQuery_num_nodes(dq) = Len(pushed)

\* a query has been answered from the cache after an update that the wrapper
\* did not forward to its inner index
C9_Witness ==
    /\ dq.status = "ok" /\ atree.status = "ok"
    /\ dq.overquery
    /\ out.op = "DynamicQuery"
    /\ dq.structure.index.positions # pushed
    /\ Len(pushed) > 0

\* C10: in a graph built by from_edge_list, neighbors(v) is strictly
\* ascending (sorted, no id twice) and does not contain v.
C10_NeighborsSortedUnique ==
    \A v \in NodeIds :
        LET nb == neighbors(graph, v)
        IN  /\ \A i, j \in DOMAIN nb : i < j => nb[i] < nb[j]
            /\ v \notin Range(nb)

\* the edge list contains an edge (u, u)
HasSelfLoop(edges) == \E k \in DOMAIN edges : edges[k][1] = edges[k][2]

\* C11: an edge list with a self-loop is rejected (an error and no graph),
\* one without self-loops, duplicates included, yields a graph.
C11_SelfLoopRejected ==
    /\ graph # Graph_new => ~HasSelfLoop(edge_list)
    /\ ~HasSelfLoop(edge_list) => from_edge_list_result(edge_list).ok

\* C12: every node of a graph built from a non-empty edge list has
\* weight(v) > 0, nodes of degree 0 included.
C12_WeightsPositive ==
    graph # Graph_new =>
        \A v \in NodeIds : weight(graph, v)[1] > 0 /\ weight(graph, v)[2] > 0

RECURSIVE Leaves(_, _)
\* the leaves <<layer id, offset, len>> below layer_id
Leaves(t, layer_id) ==
    IF layer_id >= Len(t.layers) THEN {}
    ELSE IF t.layers[layer_id + 1].kind = "Leaf"
         THEN {<<layer_id, t.layers[layer_id + 1].offset, t.layers[layer_id + 1].len>>}
         ELSE Leaves(t, children(layer_id)[1]) \cup Leaves(t, children(layer_id)[2])

\* C13: after a construction or update_positions(P) that completes, node_ids
\* is a permutation of [0,N), the leaf ranges are pairwise disjoint and cover
\* [0,N), and positions_sorted[i] = P[node_ids[i]].
C13_TreeLayout ==
    (atree.status = "ok" /\ pushed # << >>) =>
        LET n == Len(pushed)
            leaves == Leaves(atree, 0)
        IN  /\ Len(atree.node_ids) = n
            /\ Range(atree.node_ids) = Ids(n)
            /\ \A l \in leaves : l[2] >= 0 /\ l[2] + l[3] <= n
            /\ \A i \in Ids(n) :
                  Cardinality({l \in leaves : l[2] <= i /\ i < l[2] + l[3]}) = 1
            /\ Len(atree.positions_sorted) = n
            /\ \A i \in 1 .. n :
                  atree.positions_sorted[i] = At(pushed, atree.node_ids[i])

\* an update_positions call has completed on a tree with two leaves in an
\* order other than the id order
C13_Witness ==
    /\ out.op = "update_positions"
    /\ atree.status = "ok"
    /\ Cardinality(Leaves(atree, 0)) >= 2
    /\ atree.node_ids # [i \in 1 .. Len(pushed) |-> i - 1]

\* the sums and the maximum check_convergence folds over the node pairs
\* (new_pos, old_pos), in 1/Unit^2
SumNormSquared == SumOver([i \in DOMAIN we.old_positions |->
                             distance_squared(we.old_positions[i], DVec_zero)],
                          Len(we.old_positions))
SumDiffSquared == SumOver([i \in DOMAIN we.positions |->
                             distance_squared(we.positions[i], we.old_positions[i])],
                          Len(we.positions))
MaxDiffSquared ==
    LET diff == {distance_squared(we.positions[i], we.old_positions[i]) :
                    i \in DOMAIN we.positions}
    IN  CHOOSE m \in diff : \A x \in diff : x <= m

\* C14: after every check_convergence call the stored last_max_delta is the
\* maximum per-node displacement M (also when S_n = 0); the call returned
\* false when S_n = 0 and otherwise true exactly when S_d / S_n <
\* min_position_change
C14_ConvergenceCheck ==
    run.checked =>
        /\ we.last_relative_change = Some(sqrt(MaxDiffSquared))
        /\ SumNormSquared = 0 => ~run.converged
        /\ SumNormSquared # 0 =>
              (run.converged <=>
                  SumDiffSquared <= (SumNormSquared - 1) \div min_position_change_inv)

\* the array the force passes of the last calculate_step worked on
ForcePositions == we.old_positions

\* d / (weight(u) * weight(v)) >= 1, on squared quantities
WeightedDistanceGeqOne(u, v) ==
    distance_squared(At(ForcePositions, u), At(ForcePositions, v))
            * weight(graph, u)[2] * weight(graph, v)[2]
        >= weight(graph, u)[1] * weight(graph, v)[1] * Unit * Unit

\* C15: for every pair u # v at non-zero distance d, repulsion_force is zero
\* whenever d / w >= 1 and attraction_force is zero whenever d / w <= 1
C15_ForceThresholds ==
    run.updates > 0 =>
        \A u, v \in Ids(Len(ForcePositions)) :
            (u # v /\ At(ForcePositions, u) # At(ForcePositions, v)) =>
                /\ WeightedDistanceGeqOne(u, v) =>
                      repulsion_force(graph, ForcePositions, v, u) = << >>
                /\ WeightedDistanceLeqOne(
                      distance_squared(At(ForcePositions, v), At(ForcePositions, u)),
                      weight(graph, u), weight(graph, v)) =>
                      attraction_force(graph, ForcePositions, u, v) = << >>

\* C16: repulsion_force(v, u) = -repulsion_force(u, v) for every pair of
\* vertices, pairs at identical positions included: whatever the two calls
\* return, one is the negation of the other
C16_RepulsionAntisymmetric ==
    run.updates > 0 =>
        \A u, v \in Ids(Len(ForcePositions)) :
            u # v =>
                \A a \in repulsion_force_values(graph, ForcePositions, v, u) :
                \A b \in repulsion_force_values(graph, ForcePositions, u, v) :
                    a = [b EXCEPT !.dir = DVec_neg(b.dir)]

\* C19: at every update_positions(positions, Delta) call of the engine, a
\* provided Delta is at least the largest displacement of a node since the
\* array of the previous call
C19_DeltaBoundsDisplacement == run.delta_bounded

\* C20: whenever an update_positions call leaves overquery = false, the
\* update has been forwarded within that call: the inner index, which
\* answers every pass-through query, holds the array of the call
C20_ForwardedWhenNotOverquery ==
    (dq.status = "ok" /\ ~dq.overquery) => dq.structure.index.positions = pushed

\* C17: for a non-empty history of snapshots of one length, the file written
\* by write_test_file::<D> is parsed by parse_positions_file::<D> into as
\* many snapshots, each with the iteration number and the coordinates written
C17_HistoryRoundTrip ==
    (hist.parsed.status # "none" /\ hist.iterations # << >>
        /\ hist.parsed.dim = hist.dim) =>
        /\ hist.parsed.status = "ok"
        /\ Len(hist.parsed.iterations) = Len(hist.iterations)
        /\ \A k \in DOMAIN hist.parsed.iterations :
              /\ hist.parsed.iterations[k].number = hist.iterations[k][1]
              /\ hist.parsed.iterations[k].positions = hist.iterations[k][2]

\* C18: parse_positions_file::<D> on a file whose header dimension is not D
\* reports an error to the caller and returns no iterations; it neither
\* returns data nor aborts the process
C18_DimensionMismatchReported ==
    (hist.parsed.status # "none" /\ hist.wrote = "ok"
        /\ hist.parsed.dim # hist.dim) =>
        hist.parsed.status = "err"

\* C21: after embed and calculate_step calls totalling k executed steps,
\* iteration() = k and the history log holds one entry for each of the
\* iterations 10, 20, .. <= k, in increasing order
C21_IterationCountsSteps ==
    run.pc # "panicked" =>
        /\ we.iteration = run.executed
        /\ Len(we.positions_log) = run.executed \div 10
        /\ \A i \in DOMAIN we.positions_log : we.positions_log[i][1] = 10 * i

\* C22: ATree construction and update_positions complete for every array of
\* N >= 1 positions, also when more than LEAFSIZE nodes share a coordinate
\* on a split axis (no empty child range, no layer id >= N)
C22_ConstructionCompletes ==
    pushed # << >> => atree.status = "ok"

RECURSIVE LayerDepth(_)
\* the axis Layer::new was given for layer_id: depth is (depth + 1) % D one
\* level down
LayerDepth(layer_id) ==
    IF layer_id = 0 THEN 0 ELSE (LayerDepth((layer_id - 1) \div 2) + 1) % D

\* the coordinates on axis depth of the nodes stored below layer_id
SubtreeCoordinates(t, layer_id, depth) ==
    {At(t.positions, At(t.node_ids, i))[depth + 1] :
        i \in UNION {l[2] .. (l[2] + l[3] - 1) : l \in Leaves(t, layer_id)}}

\* the layer ids the tree uses: the root and the children of every split node
RECURSIVE UsedLayers(_, _)
UsedLayers(t, layer_id) ==
    IF layer_id >= Len(t.layers) THEN {}
    ELSE IF At(t.layers, layer_id).kind = "Leaf" THEN {layer_id}
         ELSE {layer_id} \cup UsedLayers(t, children(layer_id)[1])
                         \cup UsedLayers(t, children(layer_id)[2])

\* C23: the integer-key sort orders by numeric value: d_pos is non-decreasing
\* within every leaf, every position of a left subtree is below the split on
\* the split axis and every position of a right subtree is at or above it
C23_SortedByValue ==
    (atree.status = "ok" /\ pushed # << >>) =>
        \A layer_id \in UsedLayers(atree, 0) :
            LET layer == At(atree.layers, layer_id)
                depth == LayerDepth(layer_id)
            IN  IF layer.kind = "Leaf"
                THEN \A i \in layer.offset .. (layer.offset + layer.len - 2) :
                        At(atree.d_pos, i) <= At(atree.d_pos, i + 1)
                ELSE /\ \A x \in SubtreeCoordinates(atree, children(layer_id)[1], depth) :
                            x < layer.split
                     /\ \A x \in SubtreeCoordinates(atree, children(layer_id)[2], depth) :
                            x >= layer.split

RECURSIVE ScanVisits(_, _, _, _, _, _)
\* the indices i the for loop of the leaf branch reaches with p <= max,
\* started at i
ScanVisits(t, own_pos, i, end, rho2, q) ==
    IF i >= end THEN {}
    ELSE LET p == At(t.d_pos, i)
         IN  IF p - own_pos > 0 /\ (p - own_pos) * (p - own_pos) * q > rho2
             THEN {}
             ELSE {i} \cup ScanVisits(t, own_pos, i + 1, end, rho2, q)

\* C24: in every leaf, LUT entry i is the number of leaf entries with
\* coordinate < min + i / resolution (also in leaves whose coordinates all
\* equal one integer and in single-node leaves), and the scan that starts at
\* the LUT index of lo = own_pos - 1 visits every leaf entry in
\* [own_pos - 1, own_pos + 1]
C24_LutCountsAndScanCovers ==
    (atree.status = "ok" /\ pushed # << >>) =>
        \A layer_id \in UsedLayers(atree, 0) :
            LET layer == At(atree.layers, layer_id)
                depth == LayerDepth(layer_id)
                entries == layer.offset .. (layer.offset + layer.len - 1)
                rho2 == Unit * Unit
            IN  layer.kind = "Leaf" =>
                  /\ \A i \in DOMAIN layer.lut :
                        layer.lut[i] =
                          Cardinality({j \in entries :
                             LutSize * (At(atree.d_pos, j) - layer.min)
                                < (i - 1) * layer.resolution[2]})
                  /\ \A index \in Ids(Len(pushed)) : \A j \in entries :
                        LET own_pos == ATree_position(atree, index)[depth + 1]
                            diff == At(atree.d_pos, j) - own_pos
                        IN  diff * diff <= rho2 =>
                              /\ layer.lut # << >>
                              /\ j \in ScanVisits(atree, own_pos,
                                      layer.lut[lut_index(layer, own_pos, rho2, 1) + 1]
                                         + layer.offset,
                                      layer.offset + layer.len, rho2, 1)

\* the entries of node_ids stored below layer_id
SubtreeEntries(t, layer_id) ==
    UNION {l[2] .. (l[2] + l[3] - 1) : l \in Leaves(t, layer_id)}

Abs(x) == IF x < 0 THEN -x ELSE x

\* the radius-reduction invariant at the call
\* query_recursive(index, depth, layer_id, dim_radius_squared, .., distances)
RadiusInvariantHere(t, index, layer_id, dim_radius_squared, R0, distances, q) ==
    /\ dim_radius_squared = R0 - q * distance_squared(distances, DVec_zero)
    /\ \A k \in 1 .. D : \A i \in SubtreeEntries(t, layer_id) :
          Abs(At(t.positions, At(t.node_ids, i))[k] - ATree_position(t, index)[k])
             >= Abs(distances[k])

\* the invariant at a call and at every call made below it; a pruned
\* subtree holds no point closer to the query point than the original radius
RECURSIVE RadiusInvariant(_, _, _, _, _, _, _, _)
RadiusInvariant(t, index, depth, layer_id, dim_radius_squared, R0, distances, q) ==
    LET layer == At(t.layers, layer_id)
        own_pos == ATree_position(t, index)[depth + 1]
        left == children(layer_id)[1]
        right == children(layer_id)[2]
        own == IF own_pos < layer.split THEN left ELSE right
        other == IF own_pos < layer.split THEN right ELSE left
        dist == own_pos - layer.split
        d_2 == dist - distances[depth + 1]
        x == 2 * distances[depth + 1] * d_2 + d_2 * d_2
        reduced_radius == dim_radius_squared - x * q
    IN  /\ RadiusInvariantHere(t, index, layer_id, dim_radius_squared, R0, distances, q)
        /\ layer.kind = "Node" =>
              /\ RadiusInvariant(t, index, (depth + 1) % D, own, dim_radius_squared,
                                 R0, distances, q)
              /\ IF reduced_radius <= 0
                 THEN \A i \in SubtreeEntries(t, other) :
                         distance_squared(ATree_position(t, index),
                                          At(t.positions, At(t.node_ids, i))) * q >= R0
                 ELSE RadiusInvariant(t, index, (depth + 1) % D, other, reduced_radius,
                                      R0, [distances EXCEPT ![depth + 1] = dist], q)

\* C25: at every recursive call of the ATree query just answered,
\* dim_radius_squared = original_radius_squared - sum of distances[k]^2, each
\* |distances[k]| is a lower bound on the axis-k distance from the query point
\* to every point of the visited subtree, and a pruned subtree holds no point
\* within the original radius
C25_RadiusReduction ==
    (out.op = "ATree" /\ ~out.panic) =>
        LET w == weight(graph, out.index)
            rw == Reduced(<<out.radius[1] * w[1], out.radius[2] * w[2]>>)
            q == rw[2] * rw[2]
            R0 == rw[1] * rw[1] * Unit * Unit
        IN  RadiusInvariant(atree, out.index, 0, 0, R0, R0, DVec_zero, q)

\* C29: after every update_positions call with non-empty positions and a
\* delta that is absent or >= 0, 1 <= query_buffer <= over_query_radius, so
\* the assertion radius <= query_buffer holds for a radius-1 query in
\* over-query mode
C29_QueryBufferBounds ==
    (dq.status = "ok" /\ dq.positions # << >>) =>
        /\ Unit <= dq.query_buffer
        /\ dq.query_buffer <= dq.over_query_radius
        /\ dq.overquery => One[1] * Unit <= dq.query_buffer * One[2]

\* a radius-1 query was answered in over-query mode after an update that
\* used up part of the buffer
C29_Witness ==
    /\ dq.status = "ok"
    /\ dq.overquery
    /\ dq.query_buffer < dq.over_query_radius
    /\ out.op = "DynamicQuery"
    /\ ~out.panic

\* C28: when overquery is set and cache_empty is not, every cache slot has
\* been filled by an inner over-query since the caches were last cleared or
\* created; so a query the wrapper answers in that mode reads a slot that
\* was populated
C28_CacheFilledBeforeUse ==
    (/\ dq.status = "ok"
     /\ out.op \in {"DynamicQuery", "repelling_nodes"}
     /\ ~out.panic
     /\ dq.overquery /\ ~dq.cache_empty) =>
        out.index \in filled

\* the cell of every coordinate of p is an i8
InI8CellRange(p) == \A k \in DOMAIN p : p[k] \div Unit \in -128 .. 127

\* C27: for two light nodes u # v with coordinates inside the i8 cell range
\* and squared distance <= 1, the Lsh answer to nearest_neighbors(v, 1)
\* contains u
C27_LshComplete ==
    out.op = "Lsh" =>
        \A u \in Ids(Len(pushed)) \ {out.index} :
            (/\ weight(graph, u)[1] < weight(graph, u)[2]
             /\ weight(graph, out.index)[1] < weight(graph, out.index)[2]
             /\ InI8CellRange(At(pushed, u)) /\ InI8CellRange(At(pushed, out.index))
             /\ Lsh_distance_squared(At(pushed, u), At(pushed, out.index)) <= Unit * Unit)
            => (~out.panic /\ u \in Range(out.results))

\* number of entries of s equal to x
Count(s, x) == Cardinality({i \in DOMAIN s : s[i] = x})

\* a step of the running stage that changes query_cache[v] is a step of worker v
OnlyOwnerWrites ==
    \A v \in DOMAIN par.buf :
        (par.stage = "running" /\ par'.stage = "running" /\ par'.buf[v] # par.buf[v])
            => par'.pc[v] # par.pc[v]

\* after the join, mirror list u holds v once per occurrence of u in buf_v
MirrorIsTranspose ==
    par.stage = "joined" =>
        \A u, v \in Ids(Len(par.pc)) :
            Count(At(par.mirror, u), v) = Count(At(par.buf, v), u)

\* C26: in every interleaving of the workers of the candidate stage, worker v
\* is the only writer of query_cache[v], every push into a mirror list is
\* made while holding its mutex, and after the join repulsion_mutexes[u]
\* holds the multiset {v : u in buf_v}
C26_MirrorPass ==
    /\ [](~par.unguarded /\ MirrorIsTranspose)
    /\ [][OnlyOwnerWrites]_vars

\* the stage has joined after two workers pushed into the same mirror list
C26_Witness ==
    /\ par.stage = "joined"
    /\ \E u \in Ids(Len(par.pc)) : Len(At(par.mirror, u)) >= 2

\* the mutexes worker v holds
Held(v) ==
    {<<"cache", w>> : w \in {x \in Ids(Len(par.pc)) : v \in At(par.cache_lock, x)}}
      \cup {<<"mirror", u>> : u \in {x \in Ids(Len(par.pc)) : v \in At(par.mirror_lock, x)}}

\* a worker holds at most one mutex, and none while it waits for one
AtMostOneMutex ==
    \A v \in Ids(Len(par.pc)) :
        /\ Cardinality(Held(v)) <= 1
        /\ At(par.pc, v) \in {"call", "push"} => Held(v) = {}

\* C30: in the candidate stage over a DynamicQuery index every worker holds
\* at most one mutex at a time and waits for none while holding another, and
\* under a fair schedule every worker reaches the join
C30_NoDeadlock ==
    /\ []AtMostOneMutex
    /\ (par.stage = "running") ~> (par.stage # "running")

\* a worker waits for a mirror mutex that another worker holds
C30_Witness ==
    \E v \in Ids(Len(par.pc)) :
        /\ par.stage = "running"
        /\ At(par.pc, v) = "push"
        /\ At(par.next, v) < Len(At(par.buf, v))
        /\ At(par.mirror_lock, candidate(v)) # {}

====
